---- MODULE Spec2Model ----
(***************************************************************************)
(* Transcription workflow: the Step Functions state machine               *)
(* "transcription_workflow" together with the Lambda handlers it invokes   *)
(* (onUploadHandler, splitVideo, startTranscribe, monitorTranscribe,       *)
(* storeSubtitles) and the external transcription service.                 *)
(***************************************************************************)
EXTENDS Integers, Sequences, FiniteSets, TLC

\* ------------------------------------------------------------------ bounds
\* Largest number of chunks the splitter tool produces for one file.
MaxChunks == 4
\* Largest number of external operations that fail in one execution: a task
\* whose invocations raise errors (it may raise again on each of its retries),
\* a registry write that fails silently, a job whose subtitle output is
\* missing, a cleanup whose deletions fail.
MaxFaults == 1
\* Largest number of chunks of a file in the executions checked for liveness.
LiveChunks == 2
\* Number of chunk jobs whose registry records the concurrent pollers race on.
MaxJobs == 2
\* Longest object key, in characters, given to generateJobName.
MaxKeyLen == 2
\* Number of distinct submission instants (Date.now() values).
MaxInstants == 2
\* Largest number of caption tracks handed to one merge.
MaxTracks == 3
\* Largest number of cues of one drawn track.
MaxCues == 2
\* Cue boundaries of the drawn tracks lie on the seconds 0..MaxTicks.
MaxTicks == 2

\* --------------------------------------------------------------- constants
MAX_FILE_SIZE_MB == 100
BytesPerMB == 1024 * 1024
MaxConcurrency == 3
IntervalSeconds == 2
BackoffRate == 2
WaitSeconds == 30

Chunks == 1..MaxChunks
\* Segment 0 is the unsplit file of the direct path; 1..MaxChunks are chunks.
Segments == 0..MaxChunks
Languages == {"english", "spanish"}

\* Content lengths of the uploaded file: below, at and just above the limit.
ContentLengths ==
  {50 * BytesPerMB, MAX_FILE_SIZE_MB * BytesPerMB, MAX_FILE_SIZE_MB * BytesPerMB + 1}

NoObject == -1
NoError == "none"
NoUri == -1

VARIABLES
  validEvent,      \* the execution input names a bucket and a key
  contentLength,   \* size of the uploaded object (HeadObject ContentLength)
  segmentCount,    \* segments of 300 s the splitter tool cuts the media into
  state,           \* current state of the top-level state machine
  execStatus,      \* execution status: RUNNING, SUCCEEDED, FAILED
  retries,         \* retries already made of the current top-level task
  sizeCheck,       \* $.sizeCheck.action
  splitResult,     \* number of chunks in $.splitResult.chunks
  error,           \* $.error, set by a Catch (or the runtime error name)
  pc,              \* per Map iteration: its current state
  branchRetries,   \* per Map iteration: retries made of its current task
  parallel,        \* per branch of the StoreSubtitles Parallel state
  parallelRetries, \* per branch of the Parallel state: retries of its task
  monitorResult,   \* per segment: $.monitorResult
  transcribeJobs,  \* per segment: status of its job at the service
  startedJobs,     \* per segment: jobs the service accepted for it so far
  jobsTable,       \* per segment: the registry record of its job
  outputFiles,     \* per segment: the job's files in the output bucket
  subtitles,       \* canonical caption objects: key -> job whose caption it is
  chunkObjects,    \* chunk media objects uploaded by splitVideo
  faults,          \* injected external failures so far
  taskFailures,    \* task errors that were propagated after the last retry
  submitting,      \* jobs the service accepted whose record is not yet written
  scanJobs,        \* in-progress records the running scheduled scan still checks
  observed,        \* per poller and job: service status read, not yet acted on
  call             \* latest application of a pure function: inputs and result

vars ==
  <<contentLength, segmentCount, state, execStatus, retries, sizeCheck, splitResult, error,
    pc, branchRetries, parallel, parallelRetries, monitorResult, transcribeJobs, startedJobs,
    jobsTable, outputFiles, subtitles, chunkObjects, faults, taskFailures, validEvent,
    submitting, scanJobs, observed, call>>

\* ----------------------------------------------------------- retry policy
\* Retry.MaxAttempts of every Task state; a state without a Retry field is
\* never re-attempted.
MaxAttempts(step) ==
  CASE step = "CheckFileSize" -> 3
    [] step = "SplitVideo" -> 3
    [] step = "StartChunkTranscribe" -> 0
    [] step = "MonitorChunkTranscription" -> 2
    [] step = "StoreChunkSubtitles" -> 3
    [] step = "StartTranscribe" -> 3
    [] step = "MonitorTranscription" -> 2
    [] step = "StoreEnglishSubtitles" -> 3
    [] step = "StoreSpanishSubtitles" -> 3
    [] OTHER -> 0

RECURSIVE Pow(_, _)
Pow(b, n) == IF n = 0 THEN 1 ELSE b * Pow(b, n - 1)

\* Seconds waited before retry number k (k >= 1) of a task.
RetryDelay(k) == IntervalSeconds * Pow(BackoffRate, k - 1)

\* ------------------------------------------------------------ pure helpers
\* onUploadHandler.extractS3Info: FALSE when it throws "No S3 record found in
\* event" because the input names no bucket and key.
extractS3Info == validEvent

\* A classifier that also splits a file of exactly the threshold size.
classifyInclusive(size) ==
  IF size >= MAX_FILE_SIZE_MB * BytesPerMB THEN "split" ELSE "transcribe"

\* onUploadHandler: action decided from the measured size.
classify(size) ==
  IF size > MAX_FILE_SIZE_MB * BytesPerMB THEN "split" ELSE "transcribe"

\* storeSubtitles: canonical key of a caption.  chunk = 0 is the top-level
\* key {baseName}/{language}.srt, chunk = i is {baseName}/chunk_{i}/{language}.srt.
finalKey(totalChunks, chunkIndex, language) ==
  IF totalChunks > 1
    THEN [chunk |-> chunkIndex, language |-> language]
    ELSE [chunk |-> 0, language |-> language]

FinalKeys == [chunk : Segments, language : Languages]

\* startTranscribe: totalChunks and chunkIndex returned for a segment.
totalChunksOf(s) == IF s = 0 THEN 1 ELSE splitResult
chunkIndexOf(s) == s

NoResult == [allComplete |-> FALSE, completedJobs |-> <<>>]

\* A job id without an item in the jobs table.
NoRecord ==
  [status |-> "ABSENT", transcriptUri |-> NoUri, chunkIndex |-> 0, totalChunks |-> 0]

\* The pollers of the registry: the workflow's poll task (job-handle mode) and
\* the scheduled invocation of monitorTranscribe (scan mode).
Pollers == {"workflow", "scan"}

NoCall == [op |-> "none"]

Running == execStatus = "RUNNING"

TypeOK ==
  /\ validEvent \in BOOLEAN
  /\ submitting \subseteq Segments
  /\ scanJobs \subseteq Segments
  /\ observed \in [Pollers -> [Segments -> {"NONE", "IN_PROGRESS", "COMPLETED", "FAILED"}]]
  /\ contentLength \in ContentLengths
  /\ segmentCount \in 0..MaxChunks
  /\ state \in {"CheckFileSize", "CheckSizeDecision", "SplitVideo", "ProcessChunks",
                "StartTranscribe", "MonitorTranscription", "CheckMonitoringResult",
                "WaitBeforeRetry", "StoreSubtitles", "SuccessState", "FailureState"}
  /\ execStatus \in {"RUNNING", "SUCCEEDED", "FAILED"}
  /\ retries \in 0..3
  /\ sizeCheck \in {"none", "split", "transcribe"}
  /\ splitResult \in 0..MaxChunks
  /\ pc \in [Chunks -> {"Queued", "StartChunkTranscribe", "MonitorChunkTranscription",
                        "CheckChunkComplete", "WaitChunk", "StoreChunkSubtitles",
                        "Done", "Failed"}]
  /\ branchRetries \in [Chunks -> 0..3]
  /\ parallel \in [Languages -> {"Idle", "Running", "Done", "Failed"}]
  /\ transcribeJobs \in [Segments -> {"NONE", "IN_PROGRESS", "COMPLETED", "FAILED"}]
  /\ startedJobs \in [Segments -> Nat]
  /\ parallelRetries \in [Languages -> 0..3]
  /\ jobsTable \in [Segments -> [status : {"ABSENT", "IN_PROGRESS", "COMPLETED", "FAILED"},
                                  transcriptUri : Segments \cup {NoUri},
                                  chunkIndex : Segments,
                                  totalChunks : Segments]]
  /\ outputFiles \in [Segments -> SUBSET {"json", "srt"}]
  /\ subtitles \in [FinalKeys -> Segments \cup {NoObject}]
  /\ chunkObjects \subseteq Chunks
  /\ faults \in 0..MaxFaults

\* The state after the upload event started an execution.
Started ==
  /\ state = "CheckFileSize"
  /\ execStatus = "RUNNING"
  /\ retries = 0
  /\ sizeCheck = "none"
  /\ splitResult = 0
  /\ error = NoError
  /\ pc = [b \in Chunks |-> "Queued"]
  /\ branchRetries = [b \in Chunks |-> 0]
  /\ parallel = [l \in Languages |-> "Idle"]
  /\ parallelRetries = [l \in Languages |-> 0]
  /\ monitorResult = [s \in Segments |-> NoResult]
  /\ transcribeJobs = [s \in Segments |-> "NONE"]
  /\ startedJobs = [s \in Segments |-> 0]
  /\ jobsTable = [s \in Segments |-> NoRecord]
  /\ outputFiles = [s \in Segments |-> {}]
  /\ subtitles = [k \in FinalKeys |-> NoObject]
  /\ chunkObjects = {}
  /\ faults = 0
  /\ taskFailures = {}
  /\ submitting = {}
  /\ scanJobs = {}
  /\ observed = [p \in Pollers |-> [s \in Segments |-> "NONE"]]
  /\ call = NoCall

Init ==
  /\ validEvent \in BOOLEAN
  /\ contentLength \in ContentLengths
  /\ segmentCount \in 0..MaxChunks
  /\ Started

LiveInit ==
  /\ validEvent \in BOOLEAN
  /\ contentLength \in ContentLengths
  /\ segmentCount \in 0..LiveChunks
  /\ Started

\* --------------------------------------------------------------- handlers
\* An update that sets the status and drops the output location.
updateJobStatusStatusOnly(jobId, status, transcriptUri) ==
  [threw |-> FALSE, table |-> [jobsTable EXCEPT ![jobId].status = status]]

\* monitorTranscribe.updateJobStatus: the registry after the update, and
\* whether the call threw.  Without a transcriptUri the command is built from
\* the undeclared identifiers UpdateExpression and ExpressionAttributeValues,
\* which throws a ReferenceError before anything is sent.  UpdateItem sets
\* the two attributes of the item, creating the item when there is none.
updateJobStatus(jobId, status, transcriptUri) ==
  IF transcriptUri # NoUri
    THEN [threw |-> FALSE,
          table |-> [jobsTable EXCEPT ![jobId].status = status,
                                      ![jobId].transcriptUri = transcriptUri]]
    ELSE [threw |-> TRUE, table |-> jobsTable]

\* Transcript.TranscriptFileUri of a completed job: the job's JSON output.
TranscriptFileUri(jobId) == jobId

\* A poll that answers "in progress" for a job whose record is already
\* COMPLETED.
pollJobOnce(s, status) ==
  IF status = "COMPLETED" /\ jobsTable[s].status # "COMPLETED"
    THEN LET u == updateJobStatus(s, "COMPLETED", TranscriptFileUri(s)) IN
         [threw |-> u.threw, table |-> u.table,
          result |-> [allComplete |-> TRUE,
                      completedJobs |-> <<[language |-> "english", jobId |-> s,
                                           transcriptUri |-> TranscriptFileUri(s)]>>]]
    ELSE IF status = "FAILED"
      THEN LET u == updateJobStatus(s, "FAILED", NoUri) IN
           [threw |-> u.threw, table |-> u.table, result |-> NoResult]
      ELSE [threw |-> FALSE, table |-> jobsTable, result |-> NoResult]

\* monitorTranscribe.handler, job-handle mode, once checkJobStatus answered
\* status for the English job of segment s.
pollJob(s, status) ==
  IF status = "COMPLETED"
    THEN LET u == updateJobStatus(s, "COMPLETED", TranscriptFileUri(s)) IN
         [threw |-> u.threw, table |-> u.table,
          result |-> [allComplete |-> TRUE,
                      completedJobs |-> <<[language |-> "english", jobId |-> s,
                                           transcriptUri |-> TranscriptFileUri(s)]>>]]
    ELSE IF status = "FAILED"
      THEN LET u == updateJobStatus(s, "FAILED", NoUri) IN
           [threw |-> u.threw, table |-> u.table, result |-> NoResult]
      ELSE [threw |-> FALSE, table |-> jobsTable, result |-> NoResult]

\* Variant of monitorHandler that reports a FAILED job like one in progress,
\* without touching the registry.
monitorHandlerIgnoringFailed(s) ==
  IF transcribeJobs[s] = "COMPLETED"
    THEN LET u == updateJobStatus(s, "COMPLETED", TranscriptFileUri(s)) IN
         [threw |-> u.threw, table |-> u.table,
          result |-> [allComplete |-> TRUE,
                      completedJobs |-> <<[language |-> "english", jobId |-> s,
                                           transcriptUri |-> TranscriptFileUri(s)]>>]]
    ELSE [threw |-> FALSE, table |-> jobsTable, result |-> NoResult]

\* monitorTranscribe.handler, job-handle mode (event.jobs and event.originalKey
\* are set by startTranscribe): one poll of the English job of segment s.
monitorHandler(s) == pollJob(s, transcribeJobs[s])

\* monitorTranscribe.handler, scan mode: what one job check does to the
\* registry once the service answered status for jobId; an error of the
\* update is caught and logged by the check.
scanJob(jobId, status) ==
  IF status = "COMPLETED"
    THEN updateJobStatus(jobId, "COMPLETED", TranscriptFileUri(jobId)).table
    ELSE IF status = "FAILED"
      THEN updateJobStatus(jobId, "FAILED", NoUri).table
      ELSE jobsTable

\* A relocate that escalates a failed cleanup after the copy.
filesOnErrorCleaned(jobId) == [outputFiles EXCEPT ![jobId] = {}]

\* The source bucket when a download or the upload raised: the handler leaves
\* through its catch before it reaches cleanupFiles.
filesOnError(jobId) == outputFiles

subtitleNotFoundThrows ==
  [threw |-> TRUE, stored |-> FALSE, subtitles |-> subtitles, files |-> outputFiles]

\* Neither the direct download nor findSubtitleFile finds an .srt of the job:
\* the handler returns its "Subtitle file not found" object (statusCode 404).
subtitleNotFound ==
  [threw |-> FALSE, stored |-> FALSE, subtitles |-> subtitles, files |-> outputFiles]

storeHandlerStrictCleanup(totalChunks, chunkIndex, language, job, io, cleaned) ==
  LET direct == "srt" \in outputFiles[job.transcriptUri]
      found == "srt" \in outputFiles[job.jobId]
      source == IF direct THEN job.transcriptUri ELSE job.jobId
  IN IF ~io
       THEN [threw |-> TRUE, stored |-> FALSE, subtitles |-> subtitles,
             files |-> filesOnError(job.jobId)]
     ELSE IF direct \/ found
       THEN [threw |-> ~cleaned, stored |-> TRUE,
             subtitles |-> [subtitles EXCEPT
                              ![finalKey(totalChunks, chunkIndex, language)] = source],
             files |-> IF cleaned THEN [outputFiles EXCEPT ![job.jobId] = {}]
                                  ELSE outputFiles]
       ELSE subtitleNotFound

\* storeSubtitles.handler with a transcriptUri: copy the job's .srt to the
\* canonical key and clean the job's files up; when neither the direct
\* download nor findSubtitleFile finds an .srt it returns a 404 object
\* without throwing.  cleaned = FALSE is a cleanup whose listing or deletions
\* failed: cleanupFiles and deleteFile catch and log, so it never throws.
\* io = FALSE is an invocation in which a request of the download, the search
\* or the upload raised: the handler rethrows.
storeHandler(totalChunks, chunkIndex, language, job, io, cleaned) ==
  LET direct == "srt" \in outputFiles[job.transcriptUri]
      found == "srt" \in outputFiles[job.jobId]
      source == IF direct THEN job.transcriptUri ELSE job.jobId
  IN IF ~io
       THEN [threw |-> TRUE, stored |-> FALSE, subtitles |-> subtitles,
             files |-> filesOnError(job.jobId)]
     ELSE IF direct \/ found
       THEN [threw |-> FALSE, stored |-> TRUE,
             subtitles |-> [subtitles EXCEPT
                              ![finalKey(totalChunks, chunkIndex, language)] = source],
             files |-> IF cleaned THEN [outputFiles EXCEPT ![job.jobId] = {}]
                                  ELSE outputFiles]
       ELSE subtitleNotFound

\* A submitter that writes the record before it calls the service.
startTranscriptionJobRecordFirst(s, accepted, stored) ==
  [threw |-> ~accepted,
   jobs |-> IF accepted THEN [transcribeJobs EXCEPT ![s] = "IN_PROGRESS"]
                        ELSE transcribeJobs,
   started |-> IF accepted THEN [startedJobs EXCEPT ![s] = @ + 1] ELSE startedJobs,
   table |-> [jobsTable EXCEPT ![s] =
                [status |-> "IN_PROGRESS", transcriptUri |-> NoUri,
                 chunkIndex |-> chunkIndexOf(s), totalChunks |-> totalChunksOf(s)]]]

\* startTranscribe.startTranscriptionJob for the job of segment s.  When the
\* service rejects the job (accepted = FALSE) the error is rethrown before
\* anything is written; otherwise the job runs and its record is put with the
\* segment's metadata, and a failure of the PutItem (stored = FALSE) is logged
\* and swallowed.
startTranscriptionJob(s, accepted, stored) ==
  IF ~accepted
    THEN [threw |-> TRUE, jobs |-> transcribeJobs, started |-> startedJobs,
          table |-> jobsTable]
    ELSE [threw |-> FALSE,
          jobs |-> [transcribeJobs EXCEPT ![s] = "IN_PROGRESS"],
          started |-> [startedJobs EXCEPT ![s] = @ + 1],
          table |-> IF stored
                      THEN [jobsTable EXCEPT ![s] =
                              [status |-> "IN_PROGRESS", transcriptUri |-> NoUri,
                               chunkIndex |-> chunkIndexOf(s),
                               totalChunks |-> totalChunksOf(s)]]
                      ELSE jobsTable]

\* ------------------------------------------------- retry and catch of tasks
\* An injected external failure consumes the fault budget.
Inject == faults < MaxFaults /\ faults' = faults + 1

\* An invocation of a task raises an error: the first failure of the task
\* consumes the budget, its retries may fail again.
InjectTask(retried) == IF retried = 0 THEN Inject ELSE UNCHANGED faults

\* A Catch that resumes the workflow instead of routing to FailureState.
TaskFailsResumes(step) ==
  IF retries < MaxAttempts(step)
    THEN /\ retries' = retries + 1
         /\ UNCHANGED <<state, error, taskFailures>>
    ELSE /\ state' = "SuccessState"
         /\ error' = step
         /\ taskFailures' = taskFailures \cup
                            {[step |-> step, retries |-> retries, segment |-> 0]}
         /\ retries' = 0

\* The invocation of the current top-level task raised an error: retry it
\* while the Retry policy allows, otherwise Catch States.ALL -> FailureState.
TaskFails(step) ==
  IF retries < MaxAttempts(step)
    THEN /\ retries' = retries + 1
         /\ UNCHANGED <<state, error, taskFailures>>
    ELSE /\ state' = "FailureState"
         /\ error' = step
         /\ taskFailures' = taskFailures \cup
                            {[step |-> step, retries |-> retries, segment |-> 0]}
         /\ retries' = 0

\* The same inside iteration b of the Map state: the iterator's states have
\* no Catch, so an error that is not retried fails the iteration.
BranchFails(b, step) ==
  IF branchRetries[b] < MaxAttempts(step)
    THEN /\ branchRetries' = [branchRetries EXCEPT ![b] = @ + 1]
         /\ UNCHANGED <<pc, taskFailures>>
    ELSE /\ pc' = [pc EXCEPT ![b] = "Failed"]
         /\ taskFailures' = taskFailures \cup
                            {[step |-> step, retries |-> branchRetries[b], segment |-> b]}
         /\ branchRetries' = [branchRetries EXCEPT ![b] = 0]

\* The same inside a branch of the StoreSubtitles Parallel state.
ParallelFails(l, step) ==
  IF parallelRetries[l] < MaxAttempts(step)
    THEN /\ parallelRetries' = [parallelRetries EXCEPT ![l] = @ + 1]
         /\ UNCHANGED <<parallel, taskFailures>>
    ELSE /\ parallel' = [parallel EXCEPT ![l] = "Failed"]
         /\ taskFailures' = taskFailures \cup
                            {[step |-> step, retries |-> parallelRetries[l], segment |-> 0]}
         /\ parallelRetries' = [parallelRetries EXCEPT ![l] = 0]

branchVars == <<pc, branchRetries>>
parallelVars == <<parallel, parallelRetries>>
storeVars == <<outputFiles, subtitles, chunkObjects>>
jobVars == <<transcribeJobs, startedJobs, jobsTable>>
\* Variables of the registry pollers and of the pure-function applications.
auxVars == <<submitting, scanJobs, observed, call>>
eventVars == <<validEvent, contentLength, segmentCount, auxVars>>
inputVars == <<eventVars, sizeCheck, splitResult>>

\* ------------------------------------------------- top-level state machine
CheckFileSize ==
  /\ Running /\ state = "CheckFileSize"
  /\ \E ok \in BOOLEAN :
       IF ok /\ extractS3Info
         THEN /\ sizeCheck' = classify(contentLength)
              /\ state' = "CheckSizeDecision"
              /\ retries' = 0
              /\ UNCHANGED <<error, taskFailures, faults>>
         ELSE /\ IF ok THEN UNCHANGED faults ELSE InjectTask(retries)
              /\ TaskFails("CheckFileSize")
              /\ UNCHANGED sizeCheck
  /\ UNCHANGED <<eventVars, splitResult, execStatus, branchVars,
                 parallelVars, monitorResult, jobVars, storeVars>>

CheckSizeDecision ==
  /\ Running /\ state = "CheckSizeDecision"
  /\ state' = IF sizeCheck = "split" THEN "SplitVideo" ELSE "StartTranscribe"
  /\ UNCHANGED <<inputVars, execStatus, retries, error, branchVars, parallelVars,
                 monitorResult, jobVars, storeVars, faults, taskFailures>>

\* splitVideo.handler: the chunks the tool produced are uploaded; an
\* invocation that raises may already have uploaded some chunk objects, which
\* stay in the bucket (the handler's cleanup removes local files only).
SplitVideo ==
  /\ Running /\ state = "SplitVideo"
  /\ \E ok \in BOOLEAN, n \in 0..segmentCount :
       IF ok
         THEN /\ n = segmentCount
              /\ splitResult' = n
              /\ chunkObjects' = chunkObjects \cup 1..n
              /\ state' = "ProcessChunks"
              /\ retries' = 0
              /\ UNCHANGED <<error, taskFailures, faults>>
         ELSE /\ InjectTask(retries)
              /\ TaskFails("SplitVideo")
              /\ chunkObjects' = chunkObjects \cup 1..n
              /\ UNCHANGED splitResult
  /\ UNCHANGED <<eventVars, sizeCheck, execStatus, branchVars,
                 parallelVars, monitorResult, jobVars, outputFiles, subtitles>>

\* returned = FALSE is an invocation that ends in an error (a timeout, a
\* runtime failure) although the handler's request to the service went through.
StartTranscribe ==
  /\ Running /\ state = "StartTranscribe"
  /\ \E accepted \in BOOLEAN, stored \in BOOLEAN, returned \in BOOLEAN :
       LET h == startTranscriptionJob(0, accepted, stored) IN
       /\ transcribeJobs' = h.jobs
       /\ startedJobs' = h.started
       /\ jobsTable' = h.table
       /\ IF ~h.threw /\ returned
            THEN /\ IF stored THEN UNCHANGED faults ELSE Inject
                 /\ state' = "MonitorTranscription"
                 /\ retries' = 0
                 /\ UNCHANGED <<error, taskFailures>>
            ELSE /\ h.threw => (stored /\ returned)
                 /\ InjectTask(retries)
                 /\ TaskFails("StartTranscribe")
  /\ UNCHANGED <<inputVars, execStatus, branchVars, parallelVars, monitorResult,
                 storeVars>>

MonitorTranscription ==
  /\ Running /\ state = "MonitorTranscription"
  /\ \E ok \in BOOLEAN :
       LET h == monitorHandler(0) IN
       IF ok /\ ~h.threw
         THEN /\ jobsTable' = h.table
              /\ monitorResult' = [monitorResult EXCEPT ![0] = h.result]
              /\ state' = "CheckMonitoringResult"
              /\ retries' = 0
              /\ UNCHANGED <<error, taskFailures, faults>>
         ELSE /\ IF ok THEN UNCHANGED faults ELSE InjectTask(retries)
              /\ TaskFails("MonitorTranscription")
              /\ UNCHANGED <<jobsTable, monitorResult>>
  /\ UNCHANGED <<inputVars, execStatus, branchVars, parallelVars, transcribeJobs, startedJobs,
                 storeVars>>

\* A Choice state that takes its Default whatever the poll answered.
CheckMonitoringResultAlwaysWaits ==
  /\ Running /\ state = "CheckMonitoringResult"
  /\ state' = "WaitBeforeRetry"
  /\ UNCHANGED <<inputVars, execStatus, retries, error, branchVars, parallelVars,
                 monitorResult, jobVars, storeVars, faults, taskFailures>>

CheckMonitoringResult ==
  /\ Running /\ state = "CheckMonitoringResult"
  /\ IF monitorResult[0].allComplete
       THEN /\ state' = "StoreSubtitles"
            /\ parallel' = [l \in Languages |-> "Running"]
       ELSE /\ state' = "WaitBeforeRetry"
            /\ UNCHANGED parallel
  /\ UNCHANGED <<inputVars, execStatus, retries, error, branchVars, parallelRetries,
                 monitorResult, jobVars, storeVars, faults, taskFailures>>

WaitBeforeRetry ==
  /\ Running /\ state = "WaitBeforeRetry"
  /\ state' = "MonitorTranscription"
  /\ UNCHANGED <<inputVars, execStatus, retries, error, branchVars, parallelVars,
                 monitorResult, jobVars, storeVars, faults, taskFailures>>

\* One branch of the StoreSubtitles Parallel state: StoreEnglishSubtitles
\* takes completedJobs[0], StoreSpanishSubtitles completedJobs[1].  A
\* Parameters path that selects nothing is a States.Runtime error, which no
\* Retry or Catch matches: the execution fails.
StoreBranch(l, step, i) ==
  /\ Running /\ state = "StoreSubtitles" /\ parallel[l] = "Running"
  /\ IF Len(monitorResult[0].completedJobs) < i
       THEN /\ execStatus' = "FAILED"
            /\ error' = "States.Runtime"
            /\ UNCHANGED <<parallelVars, outputFiles, subtitles, faults, taskFailures>>
       ELSE \E ok \in BOOLEAN, cleaned \in BOOLEAN :
              LET h == storeHandler(totalChunksOf(0), chunkIndexOf(0), l,
                                    monitorResult[0].completedJobs[i], ok, cleaned) IN
              IF ~h.threw
                THEN /\ subtitles' = h.subtitles
                     /\ outputFiles' = h.files
                     /\ parallel' = [parallel EXCEPT ![l] = "Done"]
                     /\ IF h.stored /\ ~cleaned THEN Inject ELSE UNCHANGED faults
                     /\ UNCHANGED <<parallelRetries, taskFailures, execStatus, error>>
                ELSE /\ ok \/ cleaned
                     /\ IF ok THEN UNCHANGED faults
                              ELSE InjectTask(parallelRetries[l])
                     /\ ParallelFails(l, step)
                     /\ subtitles' = h.subtitles
                     /\ outputFiles' = h.files
                     /\ UNCHANGED <<execStatus, error>>
  /\ UNCHANGED <<inputVars, state, retries, branchVars, monitorResult, jobVars,
                 chunkObjects>>

StoreEnglishSubtitles == StoreBranch("english", "StoreEnglishSubtitles", 1)

StoreSpanishSubtitles == StoreBranch("spanish", "StoreSpanishSubtitles", 2)

\* The Parallel state ends: Catch States.ALL -> FailureState when a branch
\* failed, Next = SuccessState when every branch ended.
StoreSubtitles ==
  /\ Running /\ state = "StoreSubtitles"
  /\ \/ \E l \in Languages : parallel[l] = "Failed"
     \/ \A l \in Languages : parallel[l] = "Done"
  /\ IF \E l \in Languages : parallel[l] = "Failed"
       THEN /\ state' = "FailureState"
            /\ \E f \in taskFailures :
                 /\ f.step \in {"StoreEnglishSubtitles", "StoreSpanishSubtitles"}
                 /\ error' = f.step
       ELSE /\ state' = "SuccessState"
            /\ UNCHANGED error
  /\ UNCHANGED <<inputVars, execStatus, retries, branchVars, parallelVars,
                 monitorResult, jobVars, storeVars, faults, taskFailures>>

SuccessState ==
  /\ Running /\ state = "SuccessState"
  /\ execStatus' = "SUCCEEDED"
  /\ UNCHANGED <<inputVars, state, retries, error, branchVars, parallelVars,
                 monitorResult, jobVars, storeVars, faults, taskFailures>>

FailureState ==
  /\ Running /\ state = "FailureState"
  /\ execStatus' = "FAILED"
  /\ UNCHANGED <<inputVars, state, retries, error, branchVars, parallelVars,
                 monitorResult, jobVars, storeVars, faults, taskFailures>>

\* --------------------------------------------- ProcessChunks (Map) iterations
InProgress ==
  {"StartChunkTranscribe", "MonitorChunkTranscription", "CheckChunkComplete",
   "WaitChunk", "StoreChunkSubtitles"}

RunningBranches == {b \in Chunks : pc[b] \in InProgress}

\* Iterations that keep running whatever the state of the execution.
InMapDetached == splitResult > 0

InMap == Running /\ state = "ProcessChunks"

\* A slot counted free while the limit is already reached.
SlotFreeOffByOne(limit) == limit = 0 \/ Cardinality(RunningBranches) <= limit

\* MaxConcurrency = 0 places no limit on the concurrent iterations.
SlotFree(limit) == limit = 0 \/ Cardinality(RunningBranches) < limit

\* The Map state starts the iteration of item b, in item order, when a
\* concurrency slot is free and no iteration has failed.
ProcessChunksStart(b) ==
  /\ InMap /\ b <= splitResult /\ pc[b] = "Queued"
  /\ \A c \in Chunks : c < b => pc[c] # "Queued"
  /\ \A c \in Chunks : pc[c] # "Failed"
  /\ SlotFree(MaxConcurrency)
  /\ pc' = [pc EXCEPT ![b] = "StartChunkTranscribe"]
  /\ UNCHANGED <<inputVars, state, execStatus, retries, error, branchRetries,
                 parallelVars, monitorResult, jobVars, storeVars, faults,
                 taskFailures>>

StartChunkTranscribe(b) ==
  /\ InMap /\ pc[b] = "StartChunkTranscribe"
  /\ \E accepted \in BOOLEAN, stored \in BOOLEAN, returned \in BOOLEAN :
       LET h == startTranscriptionJob(b, accepted, stored) IN
       /\ transcribeJobs' = h.jobs
       /\ startedJobs' = h.started
       /\ jobsTable' = h.table
       /\ IF ~h.threw /\ returned
            THEN /\ IF stored THEN UNCHANGED faults ELSE Inject
                 /\ pc' = [pc EXCEPT ![b] = "MonitorChunkTranscription"]
                 /\ UNCHANGED <<branchRetries, taskFailures>>
            ELSE /\ h.threw => (stored /\ returned)
                 /\ InjectTask(branchRetries[b])
                 /\ BranchFails(b, "StartChunkTranscribe")
  /\ UNCHANGED <<inputVars, state, execStatus, retries, error, parallelVars,
                 monitorResult, storeVars>>

\* A poll that takes the job handle of the first iteration instead of its own.
MonitorChunkTranscriptionShared(b) ==
  /\ InMap /\ pc[b] = "MonitorChunkTranscription"
  /\ \E ok \in BOOLEAN :
       LET h == monitorHandler(1) IN
       IF ok /\ ~h.threw
         THEN /\ jobsTable' = h.table
              /\ monitorResult' = [monitorResult EXCEPT ![b] = h.result]
              /\ pc' = [pc EXCEPT ![b] = "CheckChunkComplete"]
              /\ branchRetries' = [branchRetries EXCEPT ![b] = 0]
              /\ UNCHANGED <<taskFailures, faults>>
         ELSE /\ IF ok THEN UNCHANGED faults ELSE InjectTask(branchRetries[b])
              /\ BranchFails(b, "MonitorChunkTranscription")
              /\ UNCHANGED <<jobsTable, monitorResult>>
  /\ UNCHANGED <<inputVars, state, execStatus, retries, error, parallelVars,
                 transcribeJobs, startedJobs, storeVars>>

MonitorChunkTranscription(b) ==
  /\ InMap /\ pc[b] = "MonitorChunkTranscription"
  /\ \E ok \in BOOLEAN :
       LET h == monitorHandler(b) IN
       IF ok /\ ~h.threw
         THEN /\ jobsTable' = h.table
              /\ monitorResult' = [monitorResult EXCEPT ![b] = h.result]
              /\ pc' = [pc EXCEPT ![b] = "CheckChunkComplete"]
              /\ branchRetries' = [branchRetries EXCEPT ![b] = 0]
              /\ UNCHANGED <<taskFailures, faults>>
         ELSE /\ IF ok THEN UNCHANGED faults ELSE InjectTask(branchRetries[b])
              /\ BranchFails(b, "MonitorChunkTranscription")
              /\ UNCHANGED <<jobsTable, monitorResult>>
  /\ UNCHANGED <<inputVars, state, execStatus, retries, error, parallelVars,
                 transcribeJobs, startedJobs, storeVars>>

\* A Choice state that leaves the poll loop whatever the poll answered.
CheckChunkCompleteAlways(b) ==
  /\ InMap /\ pc[b] = "CheckChunkComplete"
  /\ pc' = [pc EXCEPT ![b] = "StoreChunkSubtitles"]
  /\ UNCHANGED <<inputVars, state, execStatus, retries, error, branchRetries,
                 parallelVars, monitorResult, jobVars, storeVars, faults,
                 taskFailures>>

CheckChunkComplete(b) ==
  /\ InMap /\ pc[b] = "CheckChunkComplete"
  /\ pc' = [pc EXCEPT ![b] = IF monitorResult[b].allComplete
                                THEN "StoreChunkSubtitles" ELSE "WaitChunk"]
  /\ UNCHANGED <<inputVars, state, execStatus, retries, error, branchRetries,
                 parallelVars, monitorResult, jobVars, storeVars, faults,
                 taskFailures>>

\* A wait that restarts the iteration at its submit step.
WaitChunkRestarts(b) ==
  /\ InMap /\ pc[b] = "WaitChunk"
  /\ pc' = [pc EXCEPT ![b] = "StartChunkTranscribe"]
  /\ UNCHANGED <<inputVars, state, execStatus, retries, error, branchRetries,
                 parallelVars, monitorResult, jobVars, storeVars, faults,
                 taskFailures>>

WaitChunk(b) ==
  /\ InMap /\ pc[b] = "WaitChunk"
  /\ pc' = [pc EXCEPT ![b] = "MonitorChunkTranscription"]
  /\ UNCHANGED <<inputVars, state, execStatus, retries, error, branchRetries,
                 parallelVars, monitorResult, jobVars, storeVars, faults,
                 taskFailures>>

StoreChunkSubtitles(b) ==
  /\ InMap /\ pc[b] = "StoreChunkSubtitles"
  /\ IF Len(monitorResult[b].completedJobs) < 1
       THEN /\ execStatus' = "FAILED"
            /\ error' = "States.Runtime"
            /\ UNCHANGED <<branchVars, outputFiles, subtitles, faults, taskFailures>>
       ELSE \E ok \in BOOLEAN, cleaned \in BOOLEAN :
              LET job == monitorResult[b].completedJobs[1]
                  h == storeHandler(totalChunksOf(b), chunkIndexOf(b), job.language,
                                    job, ok, cleaned) IN
              IF ~h.threw
                THEN /\ subtitles' = h.subtitles
                     /\ outputFiles' = h.files
                     /\ pc' = [pc EXCEPT ![b] = "Done"]
                     /\ branchRetries' = [branchRetries EXCEPT ![b] = 0]
                     /\ IF h.stored /\ ~cleaned THEN Inject ELSE UNCHANGED faults
                     /\ UNCHANGED <<taskFailures, execStatus, error>>
                ELSE /\ ok \/ cleaned
                     /\ IF ok THEN UNCHANGED faults
                              ELSE InjectTask(branchRetries[b])
                     /\ BranchFails(b, "StoreChunkSubtitles")
                     /\ subtitles' = h.subtitles
                     /\ outputFiles' = h.files
                     /\ UNCHANGED <<execStatus, error>>
  /\ UNCHANGED <<inputVars, state, retries, parallelVars, monitorResult, jobVars,
                 chunkObjects>>

\* A Map state that tolerates failed iterations.
ProcessChunksTolerant ==
  /\ InMap
  /\ \A b \in Chunks : b <= splitResult => pc[b] \in {"Done", "Failed"}
  /\ state' = "SuccessState"
  /\ UNCHANGED <<error, inputVars, execStatus, retries, branchVars, parallelVars,
                 monitorResult, jobVars, storeVars, faults, taskFailures>>

\* The Map state ends: Catch States.ALL -> FailureState when an iteration
\* failed, Next = SuccessState when every item's iteration ended.
ProcessChunks ==
  /\ InMap
  /\ \/ \E b \in Chunks : pc[b] = "Failed"
     \/ \A b \in Chunks : b <= splitResult => pc[b] = "Done"
  /\ IF \E b \in Chunks : pc[b] = "Failed"
       THEN /\ state' = "FailureState"
            /\ \E f \in taskFailures :
                 /\ f.segment \in Chunks /\ pc[f.segment] = "Failed"
                 /\ error' = f.step
       ELSE /\ state' = "SuccessState"
            /\ UNCHANGED error
  /\ UNCHANGED <<inputVars, execStatus, retries, branchVars, parallelVars,
                 monitorResult, jobVars, storeVars, faults, taskFailures>>

\* ------------------------------------------------ the transcription service
\* The jobs of an execution are observed only while the execution runs.
\* A job in progress completes; its subtitle output is written with the
\* transcript (srt = FALSE: the .srt object is missing from the bucket).
JobCompletes(s) ==
  /\ Running /\ transcribeJobs[s] = "IN_PROGRESS"
  /\ transcribeJobs' = [transcribeJobs EXCEPT ![s] = "COMPLETED"]
  /\ \E srt \in BOOLEAN :
       IF srt
         THEN /\ outputFiles' = [outputFiles EXCEPT ![s] = {"json", "srt"}]
              /\ UNCHANGED faults
         ELSE /\ outputFiles' = [outputFiles EXCEPT ![s] = {"json"}]
              /\ Inject
  /\ UNCHANGED <<inputVars, state, execStatus, retries, error, branchVars,
                 parallelVars, monitorResult, startedJobs, jobsTable, subtitles,
                 chunkObjects, taskFailures>>

JobFails(s) ==
  /\ Running /\ transcribeJobs[s] = "IN_PROGRESS"
  /\ transcribeJobs' = [transcribeJobs EXCEPT ![s] = "FAILED"]
  /\ UNCHANGED <<inputVars, state, execStatus, retries, error, branchVars,
                 parallelVars, monitorResult, startedJobs, jobsTable, storeVars,
                 faults, taskFailures>>

\* ------------------------------------------------------------ specification
TopLevel ==
  \/ CheckFileSize
  \/ CheckSizeDecision
  \/ SplitVideo
  \/ StartTranscribe
  \/ MonitorTranscription
  \/ CheckMonitoringResult
  \/ WaitBeforeRetry
  \/ StoreSubtitles
  \/ SuccessState
  \/ FailureState
  \/ ProcessChunks

Iteration(b) ==
  \/ ProcessChunksStart(b)
  \/ StartChunkTranscribe(b)
  \/ MonitorChunkTranscription(b)
  \/ CheckChunkComplete(b)
  \/ WaitChunk(b)
  \/ StoreChunkSubtitles(b)

Workflow ==
  \/ TopLevel
  \/ StoreEnglishSubtitles
  \/ StoreSpanishSubtitles
  \/ \E b \in Chunks : Iteration(b)

Service ==
  \/ \E s \in Segments : JobCompletes(s)
  \/ \E s \in Segments : JobFails(s)

Next == Workflow \/ Service

Spec == Init /\ [][Next]_vars

\* The state machine, each branch of the Parallel state and each iteration of
\* the Map state keep taking their enabled steps; the service is under no
\* obligation to finish a job.
FairSpec ==
  /\ LiveInit /\ [][Next]_vars
  /\ WF_vars(TopLevel)
  /\ WF_vars(StoreEnglishSubtitles)
  /\ WF_vars(StoreSpanishSubtitles)
  /\ \A b \in Chunks : WF_vars(Iteration(b))

\* FairSpec with a service that brings every job it accepted to COMPLETED or
\* FAILED.
TerminatingSpec == FairSpec /\ WF_vars(Service)

\* ------------------------------------------------- relocate, invoked again
\* The StoreChunkSubtitles steps of a split file are (re)played: every chunk
\* job is COMPLETED and recorded, and for each chunk the caption is either not
\* stored yet, or stored with the job's files still in place, or stored with
\* the job's files already deleted by an earlier invocation.
ReplayInit ==
  /\ validEvent = TRUE
  /\ contentLength = MAX_FILE_SIZE_MB * BytesPerMB + 1
  /\ segmentCount = MaxJobs
  /\ state = "ProcessChunks"
  /\ execStatus = "RUNNING"
  /\ retries = 0
  /\ sizeCheck = "split"
  /\ splitResult = MaxJobs
  /\ error = NoError
  /\ pc = [b \in Chunks |-> IF b <= MaxJobs THEN "StoreChunkSubtitles" ELSE "Queued"]
  /\ branchRetries = [b \in Chunks |-> 0]
  /\ parallel = [l \in Languages |-> "Idle"]
  /\ parallelRetries = [l \in Languages |-> 0]
  /\ monitorResult =
       [s \in Segments |->
          IF s \in 1..MaxJobs
            THEN [allComplete |-> TRUE,
                  completedJobs |-> <<[language |-> "english", jobId |-> s,
                                       transcriptUri |-> TranscriptFileUri(s)]>>]
            ELSE NoResult]
  /\ transcribeJobs = [s \in Segments |-> IF s \in 1..MaxJobs THEN "COMPLETED" ELSE "NONE"]
  /\ startedJobs = [s \in Segments |-> IF s \in 1..MaxJobs THEN 1 ELSE 0]
  /\ jobsTable =
       [s \in Segments |->
          IF s \in 1..MaxJobs
            THEN [status |-> "COMPLETED", transcriptUri |-> TranscriptFileUri(s),
                  chunkIndex |-> s, totalChunks |-> MaxJobs]
            ELSE NoRecord]
  /\ \E relocated \in SUBSET (1..MaxJobs), cleaned \in SUBSET (1..MaxJobs) :
       /\ cleaned \subseteq relocated
       /\ outputFiles = [s \in Segments |->
                           IF s \in (1..MaxJobs) \ cleaned THEN {"json", "srt"} ELSE {}]
       /\ subtitles = [k \in FinalKeys |->
                         IF k.language = "english" /\ k.chunk \in relocated
                           THEN k.chunk ELSE NoObject]
  /\ chunkObjects = 1..MaxJobs
  /\ faults = 0
  /\ taskFailures = {}
  /\ submitting = {}
  /\ scanJobs = {}
  /\ observed = [p \in Pollers |-> [s \in Segments |-> "NONE"]]
  /\ call = NoCall

ReplayNext ==
  \/ \E b \in Chunks : StoreChunkSubtitles(b)
  \/ ProcessChunks
  \/ SuccessState
  \/ FailureState

ReplaySpec == ReplayInit /\ [][ReplayNext]_vars

\* ------------------------------------------------------------- job names
\* Characters of object keys: a letter and punctuation.
KeyChars == {"a", "-", "_"}
Alnum == {"a"}
BaseNameLimit == 50

RECURSIVE KeysOfLen(_)
KeysOfLen(n) ==
  IF n = 0 THEN {<<>>}
  ELSE {Append(k, c) : k \in KeysOfLen(n - 1), c \in KeyChars}

Keys == UNION {KeysOfLen(n) : n \in 1..MaxKeyLen}
Instants == 1..MaxInstants

\* String.prototype.substring(0, n).
substring(str, n) == SubSeq(str, 1, IF Len(str) < n THEN Len(str) ELSE n)

\* fileKey.replace(/[^a-zA-Z0-9]/g, "_")
replaceNonAlnum(str) == [i \in 1..Len(str) |-> IF str[i] \in Alnum THEN str[i] ELSE "_"]

\* startTranscribe.generateJobName, with Date.now() = now:
\* job_{baseName}_{language}_{timestamp}{chunkSuffix}.
generateJobName(fileKey, language, chunkIndex, now) ==
  LET baseName == substring(replaceNonAlnum(fileKey), BaseNameLimit)
      chunkSuffix == IF chunkIndex # 0 THEN <<"_chunk", ToString(chunkIndex)>>
                                       ELSE <<>>
  IN <<"job_">> \o baseName \o <<"_", language, "_", ToString(now)>> \o chunkSuffix

\* chunkIndex is 0 for the job of an unsplit file (no chunk suffix).
Submissions ==
  [key : Keys, language : Languages, chunkIndex : {0, 1}, now : Instants]

\* Everything but the record of the latest pure-function application.
workflowVars ==
  <<validEvent, contentLength, segmentCount, state, execStatus, retries, sizeCheck,
    splitResult, error, branchVars, parallelVars, monitorResult, jobVars,
    storeVars, faults, taskFailures, submitting, scanJobs, observed>>

\* No execution is running; pure functions are applied to drawn inputs.
PureInit ==
  /\ validEvent = TRUE
  /\ contentLength = MAX_FILE_SIZE_MB * BytesPerMB
  /\ segmentCount = 0
  /\ Started

\* Two submissions are named.
ApplyGenerateJobName ==
  /\ call = NoCall
  /\ \E a \in Submissions, b \in Submissions :
       call' = [op |-> "generateJobName", a |-> a, b |-> b,
                ra |-> generateJobName(a.key, a.language, a.chunkIndex, a.now),
                rb |-> generateJobName(b.key, b.language, b.chunkIndex, b.now)]
  /\ UNCHANGED workflowVars

NamingNext == ApplyGenerateJobName

NamingSpec == PureInit /\ [][NamingNext]_vars

\* ------------------------------------------- the registry under concurrency
\* The chunk jobs of a split file, with each handler that touches the jobs
\* table refined into its calls to the service and to the table, interleaved
\* with the scheduled scan of monitorTranscribe (rate: 2 minutes).
RegistryJobs == 1..MaxJobs

RegistryInit ==
  /\ validEvent = TRUE
  /\ contentLength = MAX_FILE_SIZE_MB * BytesPerMB + 1
  /\ segmentCount = MaxJobs
  /\ state = "ProcessChunks"
  /\ execStatus = "RUNNING"
  /\ retries = 0
  /\ sizeCheck = "split"
  /\ splitResult = MaxJobs
  /\ error = NoError
  /\ pc = [b \in Chunks |-> IF b \in RegistryJobs THEN "StartChunkTranscribe"
                                                  ELSE "Queued"]
  /\ branchRetries = [b \in Chunks |-> 0]
  /\ parallel = [l \in Languages |-> "Idle"]
  /\ parallelRetries = [l \in Languages |-> 0]
  /\ monitorResult = [s \in Segments |-> NoResult]
  /\ transcribeJobs = [s \in Segments |-> "NONE"]
  /\ startedJobs = [s \in Segments |-> 0]
  /\ jobsTable = [s \in Segments |-> NoRecord]
  /\ outputFiles = [s \in Segments |-> {}]
  /\ subtitles = [k \in FinalKeys |-> NoObject]
  /\ chunkObjects = RegistryJobs
  /\ faults = 0
  /\ taskFailures = {}
  /\ submitting = {}
  /\ scanJobs = {}
  /\ observed = [p \in Pollers |-> [s \in Segments |-> "NONE"]]
  /\ call = NoCall

registryFrame ==
  <<validEvent, contentLength, segmentCount, state, execStatus, retries, sizeCheck,
    splitResult, error, branchRetries, parallelVars, storeVars, faults,
    taskFailures, call>>

\* startTranscriptionJob, first call: StartTranscriptionJob is sent to the
\* service.  A rejected job fails the iteration (no Retry, no record).
SendStartTranscriptionJob(j) ==
  /\ pc[j] = "StartChunkTranscribe" /\ j \notin submitting
  /\ \E accepted \in BOOLEAN :
       LET h == startTranscriptionJob(j, accepted, FALSE) IN
       /\ transcribeJobs' = h.jobs
       /\ startedJobs' = h.started
       /\ jobsTable' = h.table
       /\ IF h.threw
            THEN pc' = [pc EXCEPT ![j] = "Failed"] /\ UNCHANGED submitting
            ELSE submitting' = submitting \cup {j} /\ UNCHANGED pc
  /\ UNCHANGED <<registryFrame, monitorResult, scanJobs, observed>>

\* startTranscriptionJob, second call: PutItem writes the record with the
\* status of the service's response, or fails and is swallowed; the handler
\* returns and the iteration goes on to its poll loop.
SendPutItem(j) ==
  /\ j \in submitting
  /\ \E stored \in BOOLEAN :
       jobsTable' = [jobsTable EXCEPT
                       ![j] = startTranscriptionJob(j, TRUE, stored).table[j]]
  /\ submitting' = submitting \ {j}
  /\ pc' = [pc EXCEPT ![j] = "MonitorChunkTranscription"]
  /\ UNCHANGED <<registryFrame, transcribeJobs, startedJobs, monitorResult, scanJobs, observed>>

\* monitorTranscribe in job-handle mode, first call: checkJobStatus.
PollCheckJobStatus(j) ==
  /\ pc[j] = "MonitorChunkTranscription" /\ observed["workflow"][j] = "NONE"
  /\ observed' = [observed EXCEPT !["workflow"][j] = transcribeJobs[j]]
  /\ UNCHANGED <<registryFrame, pc, transcribeJobs, startedJobs, jobsTable, monitorResult,
                 submitting, scanJobs>>

\* monitorTranscribe in job-handle mode, second call: updateJobStatus for the
\* status read, then the result.  A poll that raises is attempted again, one
\* that answers allComplete = false is repeated after the wait.
PollUpdateJobStatus(j) ==
  /\ observed["workflow"][j] # "NONE"
  /\ LET h == pollJob(j, observed["workflow"][j]) IN
       /\ jobsTable' = h.table
       /\ IF h.threw
            THEN UNCHANGED <<monitorResult, pc>>
            ELSE /\ monitorResult' = [monitorResult EXCEPT ![j] = h.result]
                 /\ pc' = [pc EXCEPT ![j] = IF h.result.allComplete
                                              THEN "CheckChunkComplete" ELSE @]
  /\ observed' = [observed EXCEPT !["workflow"][j] = "NONE"]
  /\ UNCHANGED <<registryFrame, transcribeJobs, startedJobs, submitting, scanJobs>>

\* A scan that checks every job of the service, whatever its record says.
GetInProgressJobsUnfiltered ==
  /\ scanJobs = {}
  /\ scanJobs' = {j \in Segments : transcribeJobs[j] # "NONE"}
  /\ scanJobs' # {}
  /\ UNCHANGED <<registryFrame, pc, transcribeJobs, startedJobs, jobsTable, monitorResult,
                 submitting, observed>>

\* monitorTranscribe in scan mode (the scheduled invocation carries no job
\* handle): getInProgressJobs scans the table for records IN_PROGRESS.
GetInProgressJobs ==
  /\ scanJobs = {}
  /\ scanJobs' = {j \in Segments : jobsTable[j].status = "IN_PROGRESS"}
  /\ scanJobs' # {}
  /\ UNCHANGED <<registryFrame, pc, transcribeJobs, startedJobs, jobsTable, monitorResult,
                 submitting, observed>>

\* Scan mode, the check of one scanned job: checkJobStatus.
ScanCheckJobStatus(j) ==
  /\ j \in scanJobs /\ observed["scan"][j] = "NONE"
  /\ observed' = [observed EXCEPT !["scan"][j] = transcribeJobs[j]]
  /\ UNCHANGED <<registryFrame, pc, transcribeJobs, startedJobs, jobsTable, monitorResult,
                 submitting, scanJobs>>

\* Scan mode, the check of one scanned job: updateJobStatus for the status
\* read; the check ends.
ScanUpdateJobStatus(j) ==
  /\ j \in scanJobs /\ observed["scan"][j] # "NONE"
  /\ jobsTable' = scanJob(j, observed["scan"][j])
  /\ observed' = [observed EXCEPT !["scan"][j] = "NONE"]
  /\ scanJobs' = scanJobs \ {j}
  /\ UNCHANGED <<registryFrame, pc, transcribeJobs, startedJobs, monitorResult, submitting>>

Submitter(j) == SendStartTranscriptionJob(j) \/ SendPutItem(j)
Poller(j) == PollCheckJobStatus(j) \/ PollUpdateJobStatus(j)
Scanner ==
  \/ GetInProgressJobs
  \/ \E j \in RegistryJobs : ScanCheckJobStatus(j) \/ ScanUpdateJobStatus(j)

RegistryNext ==
  \/ \E j \in RegistryJobs : Submitter(j) \/ Poller(j)
  \/ Scanner
  \/ Service

RegistrySpec == RegistryInit /\ [][RegistryNext]_vars

\* ------------------------------------------- the Lambda-chaining monitor
\* The earlier startTranscribe starts an English and a Spanish job for its
\* input and puts one record per job; the earlier monitorTranscribe is
\* invoked periodically, scans the table for records IN_PROGRESS and invokes
\* storeSubtitles itself.  Jobs 1 and 2 are the English and the Spanish job of
\* one input: an unsplit file (totalChunks 1) or chunk 1 of a split file.
ChainJobs == {1, 2}

ChainLanguage(j) == IF j = 1 THEN "english" ELSE "spanish"

ChainInit ==
  /\ validEvent = TRUE
  /\ segmentCount = MaxJobs
  /\ state = "MonitorTranscription"
  /\ execStatus = "RUNNING"
  /\ retries = 0
  /\ error = NoError
  /\ pc = [b \in Chunks |-> "Queued"]
  /\ branchRetries = [b \in Chunks |-> 0]
  /\ parallel = [l \in Languages |-> "Idle"]
  /\ parallelRetries = [l \in Languages |-> 0]
  /\ monitorResult = [s \in Segments |-> NoResult]
  /\ transcribeJobs = [s \in Segments |-> IF s \in ChainJobs THEN "IN_PROGRESS" ELSE "NONE"]
  /\ startedJobs = [s \in Segments |-> IF s \in ChainJobs THEN 1 ELSE 0]
  /\ \E split \in BOOLEAN :
       /\ contentLength = MAX_FILE_SIZE_MB * BytesPerMB + (IF split THEN 1 ELSE 0)
       /\ sizeCheck = IF split THEN "split" ELSE "transcribe"
       /\ splitResult = IF split THEN MaxJobs ELSE 0
       /\ chunkObjects = IF split THEN 1..MaxJobs ELSE {}
       /\ jobsTable =
            [s \in Segments |->
               IF s \in ChainJobs
                 THEN [status |-> "IN_PROGRESS", transcriptUri |-> NoUri,
                       chunkIndex |-> IF split THEN 1 ELSE 0,
                       totalChunks |-> IF split THEN MaxJobs ELSE 1]
                 ELSE NoRecord]
  /\ outputFiles = [s \in Segments |-> {}]
  /\ subtitles = [k \in FinalKeys |-> NoObject]
  /\ faults = 0
  /\ taskFailures = {}
  /\ submitting = {}
  /\ scanJobs = {}
  /\ observed = [p \in Pollers |-> [s \in Segments |-> "NONE"]]
  /\ call = NoCall

\* checkAllJobsComplete: for totalChunks = 1 a scan for the COMPLETED records
\* of the original key must return two items; for chunks it answers true.
checkAllJobsComplete(totalChunks) ==
  IF totalChunks = 1
    THEN Cardinality({j \in ChainJobs : jobsTable[j].status = "COMPLETED"}) >= 2
    ELSE TRUE

\* The check of one scanned job, after checkJobStatus: updateJobStatus.  For
\* COMPLETED the check goes on with the payload it will hand to
\* storeSubtitles; for FAILED the update throws and the check's catch logs
\* it; otherwise the check ends.
ChainUpdateJobStatus(j) ==
  /\ j \in scanJobs /\ observed["scan"][j] # "NONE"
  /\ monitorResult[j].completedJobs = <<>>
  /\ jobsTable' = scanJob(j, observed["scan"][j])
  /\ IF observed["scan"][j] = "COMPLETED"
       THEN /\ monitorResult' =
                 [monitorResult EXCEPT ![j] =
                    [allComplete |-> FALSE,
                     completedJobs |-> <<[language |-> ChainLanguage(j), jobId |-> j,
                                          transcriptUri |-> TranscriptFileUri(j)]>>]]
            /\ UNCHANGED <<observed, scanJobs>>
       ELSE /\ observed' = [observed EXCEPT !["scan"][j] = "NONE"]
            /\ scanJobs' = scanJobs \ {j}
            /\ UNCHANGED monitorResult
  /\ UNCHANGED <<registryFrame, pc, transcribeJobs, startedJobs, submitting>>

\* The check of a completed job, after its update: checkAllJobsComplete and,
\* when it answers true, the synchronous invocation of storeSubtitles with
\* the job's payload (an error of the invoked function is not raised in the
\* invoker); the check ends.
ChainCheckAllJobsComplete(j) ==
  /\ j \in scanJobs /\ observed["scan"][j] = "COMPLETED"
  /\ monitorResult[j].completedJobs # <<>>
  /\ LET allComplete == checkAllJobsComplete(jobsTable[j].totalChunks)
         job == monitorResult[j].completedJobs[1]
     IN IF allComplete
          THEN \E io \in BOOLEAN, cleaned \in BOOLEAN :
                 LET h == storeHandler(jobsTable[j].totalChunks, jobsTable[j].chunkIndex,
                                       job.language, job, io, cleaned) IN
                 /\ subtitles' = h.subtitles
                 /\ outputFiles' = h.files
                 /\ monitorResult' = [monitorResult EXCEPT ![j].allComplete = TRUE]
          ELSE UNCHANGED <<subtitles, outputFiles, monitorResult>>
  /\ observed' = [observed EXCEPT !["scan"][j] = "NONE"]
  /\ scanJobs' = scanJobs \ {j}
  /\ UNCHANGED <<validEvent, contentLength, segmentCount, state, execStatus, retries,
                 sizeCheck, splitResult, error, branchVars, parallelVars, chunkObjects,
                 faults, taskFailures, call, jobVars, submitting>>

ChainNext ==
  \/ GetInProgressJobs
  \/ \E j \in ChainJobs : ScanCheckJobStatus(j)
  \/ \E j \in ChainJobs : ChainUpdateJobStatus(j)
  \/ \E j \in ChainJobs : ChainCheckAllJobsComplete(j)
  \/ Service

\* The monitor is invoked again and again, and each invocation runs to its
\* end.
ChainSpec == ChainInit /\ [][ChainNext]_vars /\ WF_vars(ChainNext)

\* ------------------------------------------------------------ the splitter
DigitChars == <<"0", "1", "2", "3", "4", "5", "6", "7", "8", "9">>

\* String(n) for a non-negative integer.
RECURSIVE String(_)
String(n) ==
  IF n < 10 THEN <<DigitChars[n + 1]>>
  ELSE String(n \div 10) \o <<DigitChars[(n % 10) + 1]>>

\* String.prototype.padStart(targetLength, padString) with a one-character pad.
RECURSIVE padStart(_, _, _)
padStart(str, targetLength, padString) ==
  IF Len(str) >= targetLength THEN str
  ELSE padStart(<<padString>> \o str, targetLength, padString)

\* Object keys of uploads: with or without the .mp4 extension.
FileKeys == Keys \cup {Append(k, ".mp4") : k \in Keys}

\* baseFileName.replace(/\.mp4$/, "")
stripMp4(fileName) ==
  IF Len(fileName) > 0 /\ fileName[Len(fileName)] = ".mp4"
  THEN SubSeq(fileName, 1, Len(fileName) - 1)
  ELSE fileName

\* The segment files the tool left in the output directory, in the order
\* readdirSync lists them: the tool numbers its segments from 0.
RECURSIVE Listings(_)
Listings(files) ==
  IF files = {} THEN {<<>>}
  ELSE UNION {{<<f>> \o l : l \in Listings(files \ {f})} : f \in files}

\* chunk_%03d.mp4
chunkFile(number) == <<"chunk_">> \o padStart(String(number), 3, "0") \o <<".mp4">>

\* Array.prototype.sort() of the segment file names: with the three-digit
\* padding the default string order is the order of the segment numbers.
sortFiles(listing) == SortSeq(listing, LAMBDA a, b : a < b)

\* splitVideo: the chunk paths, sorted by name.
splitVideo(listing) == [i \in 1..Len(listing) |-> chunkFile(sortFiles(listing)[i])]

chunkReferencesZeroBased(key, originalKey, chunkPaths) ==
  LET baseFileName == IF originalKey # <<>> THEN originalKey ELSE key
      baseName == stripMp4(baseFileName)
  IN [index \in 1..Len(chunkPaths) |->
        [key |-> <<"chunks/">> \o baseName \o <<"/chunk_">>
                   \o padStart(String(index - 1), 3, "0") \o <<".mp4">>,
         body |-> chunkPaths[index],
         originalKey |-> baseFileName,
         chunkIndex |-> index - 1,
         totalChunks |-> Len(chunkPaths)]]

\* The references the handler returns, one per chunk path; body is the
\* local file uploaded under the reference's key.
chunkReferences(key, originalKey, chunkPaths) ==
  LET baseFileName == IF originalKey # <<>> THEN originalKey ELSE key
      baseName == stripMp4(baseFileName)
  IN [index \in 1..Len(chunkPaths) |->
        [key |-> <<"chunks/">> \o baseName \o <<"/chunk_">>
                   \o padStart(String(index), 3, "0") \o <<".mp4">>,
         body |-> chunkPaths[index],
         originalKey |-> baseFileName,
         chunkIndex |-> index,
         totalChunks |-> Len(chunkPaths)]]

\* The splitVideo handler's return value for an upload at key; originalKey
\* is <<>> when the event carries none.
splitHandler(key, originalKey, listing) ==
  LET chunkPaths == splitVideo(listing)
  IN [chunks |-> chunkReferences(key, originalKey, chunkPaths),
      originalKey |-> IF originalKey # <<>> THEN originalKey ELSE key,
      totalChunks |-> Len(chunkPaths)]

\* One split of an upload whose tool run left n segment files.
ApplySplitVideo ==
  /\ call = NoCall
  /\ \E key \in FileKeys, originalKey \in FileKeys \cup {<<>>}, n \in Segments :
       \E listing \in Listings(0..(n - 1)) :
         call' = [op |-> "splitVideo", key |-> key, originalKey |-> originalKey,
                  listing |-> listing,
                  result |-> splitHandler(key, originalKey, listing)]
  /\ UNCHANGED workflowVars

SplitNext == ApplySplitVideo

SplitSpec == PureInit /\ [][SplitNext]_vars

\* ------------------------------------------------------- the caption merger
HourMs == 3600000
MinuteMs == 60000
SecondMs == 1000
GapMs == 100

\* An SRT document is a sequence of blocks (the pieces between blank lines), a
\* block a sequence of lines, a line a sequence of characters.  An entry is
\* [index, startTime, endTime, text] with text the sequence of its lines.
IsDigit(c) == \E d \in 1..10 : DigitChars[d] = c

\* Number(str) / parseInt(str) of a string of decimal digits.
RECURSIVE Number(_)
Number(str) ==
  IF Len(str) = 0 THEN 0
  ELSE Number(SubSeq(str, 1, Len(str) - 1)) * 10
         + ((CHOOSE d \in 1..10 : DigitChars[d] = str[Len(str)]) - 1)

\* parseSRTTime of a matched hh:mm:ss,mmm.
parseSRTTime(timeStr) ==
  LET hours == Number(SubSeq(timeStr, 1, 2))
      minutes == Number(SubSeq(timeStr, 4, 5))
      seconds == Number(SubSeq(timeStr, 7, 8))
      ms == Number(SubSeq(timeStr, 10, 12))
  IN hours * HourMs + minutes * MinuteMs + seconds * SecondMs + ms

formatSRTTime(ms) ==
  LET hours == ms \div HourMs
      minutes == (ms % HourMs) \div MinuteMs
      seconds == (ms % MinuteMs) \div SecondMs
      milliseconds == ms % SecondMs
  IN padStart(String(hours), 2, "0") \o <<":">>
       \o padStart(String(minutes), 2, "0") \o <<":">>
       \o padStart(String(seconds), 2, "0") \o <<",">>
       \o padStart(String(milliseconds), 3, "0")

\* \d{2}:\d{2}:\d{2},\d{3} matches the twelve characters of line from p.
timestampAt(line, p) ==
  /\ p >= 1 /\ p + 11 <= Len(line)
  /\ \A i \in {0, 1, 3, 4, 6, 7, 9, 10, 11} : IsDigit(line[p + i])
  /\ line[p + 2] = ":" /\ line[p + 5] = ":" /\ line[p + 8] = ","

\* line.match(/(\d{2}:\d{2}:\d{2},\d{3})\s*-->\s*(\d{2}:\d{2}:\d{2},\d{3})/):
\* the positions where the unanchored pattern matches; the arrow with the
\* blanks around it is one character of the line.
timeMatches(line) ==
  {p \in 1..Len(line) : /\ timestampAt(line, p)
                        /\ p + 12 <= Len(line) /\ line[p + 12] = " --> "
                        /\ timestampAt(line, p + 13)}

\* parseSRT: blocks of fewer than three lines and blocks whose second line
\* does not match are skipped.
RECURSIVE parseSRT(_)
parseSRT(content) ==
  IF content = <<>> THEN <<>>
  ELSE LET lines == Head(content)
           rest == parseSRT(Tail(content))
       IN IF Len(lines) < 3 \/ timeMatches(lines[2]) = {} THEN rest
          ELSE LET p == CHOOSE q \in timeMatches(lines[2]) :
                          \A r \in timeMatches(lines[2]) : q <= r
               IN <<[index |-> Number(lines[1]),
                     startTime |-> parseSRTTime(SubSeq(lines[2], p, p + 11)),
                     endTime |-> parseSRTTime(SubSeq(lines[2], p + 13, p + 24)),
                     text |-> SubSeq(lines, 3, Len(lines))]>> \o rest

\* The serialization at the end of mergeSubtitles: index line, time line,
\* text, blank line.
formatSRT(allEntries) ==
  [i \in 1..Len(allEntries) |->
     <<String(allEntries[i].index),
       formatSRTTime(allEntries[i].startTime) \o <<" --> ">>
         \o formatSRTTime(allEntries[i].endTime)>>
     \o allEntries[i].text]

Max(a, b) == IF a >= b THEN a ELSE b

\* chunkMaxTime after the entries of one chunk, shifted by timeOffset.
RECURSIVE chunkMaxTime(_, _)
chunkMaxTime(entries, timeOffset) ==
  IF entries = <<>> THEN 0
  ELSE Max(chunkMaxTime(SubSeq(entries, 1, Len(entries) - 1), timeOffset),
           entries[Len(entries)].endTime + timeOffset)

\* timeOffset for the next chunk.
nextOffset(entries, timeOffset) == chunkMaxTime(entries, timeOffset) + GapMs

\* The loop of mergeSubtitles over the contents from the one at the head, with
\* the loop variables timeOffset and currentIndex: the entries pushed to
\* allEntries and the timeOffset each content's entries were shifted by.
RECURSIVE mergeLoop(_, _, _)
mergeLoop(subtitleContents, timeOffset, currentIndex) ==
  IF subtitleContents = <<>> THEN [allEntries |-> <<>>, offsets |-> <<>>]
  ELSE LET entries == parseSRT(Head(subtitleContents))
           pushed == [i \in 1..Len(entries) |->
                        [index |-> currentIndex + i - 1,
                         startTime |-> entries[i].startTime + timeOffset,
                         endTime |-> entries[i].endTime + timeOffset,
                         text |-> entries[i].text]]
           rest == mergeLoop(Tail(subtitleContents), nextOffset(entries, timeOffset),
                             currentIndex + Len(entries))
       IN [allEntries |-> pushed \o rest.allEntries,
           offsets |-> <<timeOffset>> \o rest.offsets]

mergeSubtitlesGapFirst(subtitleContents) ==
  formatSRT(mergeLoop(subtitleContents, GapMs, 1).allEntries)

\* mergeSubtitles of the merge function (variables.tf).
mergeSubtitles(subtitleContents) ==
  formatSRT(mergeLoop(subtitleContents, 0, 1).allEntries)

\* mergeSubtitles of storeSubtitles.js: the contents joined by blank lines.
RECURSIVE concatSubtitles(_)
concatSubtitles(subtitleContents) ==
  IF subtitleContents = <<>> THEN <<>>
  ELSE Head(subtitleContents) \o concatSubtitles(Tail(subtitleContents))

\* Drawn tracks: up to n cues on the seconds lo..MaxTicks, sorted by start time
\* and not overlapping.
RECURSIVE Spans(_, _)
Spans(lo, n) ==
  {<<>>} \cup
    (IF n = 0 THEN {}
     ELSE UNION {UNION {{<<[s |-> s, e |-> e]>> \o rest : rest \in Spans(e, n - 1)} :
                          e \in (s + 1)..MaxTicks} :
                   s \in lo..MaxTicks})

\* The first index a caption file numbers its cues from.
FirstIndices == {1, 5}

\* The caption file of chunk k with the given cues, numbered from first.
Track(k, spans, first) ==
  [j \in 1..Len(spans) |->
     [index |-> first + j - 1,
      startTime |-> spans[j].s * SecondMs,
      endTime |-> spans[j].e * SecondMs,
      text |-> << <<"t", DigitChars[k + 1], DigitChars[j + 1]>> >>]]

RECURSIVE SpanLists(_)
SpanLists(n) ==
  IF n = 0 THEN {<<>>}
  ELSE {<<t>> \o l : t \in Spans(0, MaxCues), l \in SpanLists(n - 1)}

TrackLists ==
  UNION {{[k \in 1..Len(l) |-> Track(k, l[k], first)] : l \in SpanLists(n)} :
           n \in 1..MaxTracks, first \in FirstIndices}

Contents(tracks) == [k \in 1..Len(tracks) |-> formatSRT(tracks[k])]

\* Timestamps around the widths of the fields of hh:mm:ss,mmm.
Timestamps ==
  {0, 1, SecondMs - 1, MinuteMs + SecondMs, HourMs,
   99 * HourMs + 59 * MinuteMs + 59 * SecondMs + 999, 100 * HourMs}

\* Tracks numbered 1..N with boundaries on the timestamps above.
TimedTracks ==
  LET cue(i, s, e) == [index |-> i, startTime |-> s, endTime |-> e,
                       text |-> << <<"t">> >>]
  IN {<<>>}
     \cup {t \in {<<cue(1, s, e)>> : s \in Timestamps, e \in Timestamps} :
             t[1].startTime < t[1].endTime}
     \cup {t \in {<<cue(1, s, e), cue(2, e, f)>> :
                    s \in Timestamps, e \in Timestamps, f \in Timestamps} :
             t[1].startTime < t[1].endTime /\ t[2].startTime < t[2].endTime}

ApplyMergeSubtitles ==
  /\ call = NoCall
  /\ \E tracks \in TrackLists :
       LET loop == mergeLoop(Contents(tracks), 0, 1) IN
       call' = [op |-> "mergeSubtitles", tracks |-> tracks,
                offsets |-> loop.offsets,
                merged |-> parseSRT(mergeSubtitles(Contents(tracks)))]
  /\ UNCHANGED workflowVars

ApplyConcatSubtitles ==
  /\ call = NoCall
  /\ \E tracks \in TrackLists :
       call' = [op |-> "concatSubtitles", tracks |-> tracks,
                merged |-> parseSRT(concatSubtitles(Contents(tracks)))]
  /\ UNCHANGED workflowVars

ApplyParseFormat ==
  /\ call = NoCall
  /\ \E t \in TimedTracks :
       call' = [op |-> "parseFormat", track |-> t, parsed |-> parseSRT(formatSRT(t))]
  /\ UNCHANGED workflowVars

\* listChunkSubtitles: the chunk indices 1..totalChunks, in the order of the
\* loop, whose caption the listing finds; present holds the chunks whose
\* caption exists and whose listing request does not fail.
RECURSIVE listChunkSubtitles(_, _)
listChunkSubtitles(present, totalChunks) ==
  IF totalChunks = 0 THEN <<>>
  ELSE listChunkSubtitles(present, totalChunks - 1)
         \o (IF totalChunks \in present THEN <<totalChunks>> ELSE <<>>)

\* The handler of the merge function: whether it threw, whether it wrote the
\* merged caption, and the chunks whose captions it merged, in merge order.
\* io: the downloads and the upload succeed.
mergeHandler(totalChunks, present, io) ==
  LET chunkSubtitleKeys == listChunkSubtitles(present, totalChunks) IN
  IF totalChunks <= 1 THEN [threw |-> FALSE, written |-> FALSE, order |-> <<>>]
  ELSE IF chunkSubtitleKeys = <<>> \/ ~io
         THEN [threw |-> TRUE, written |-> FALSE, order |-> <<>>]
         ELSE [threw |-> FALSE, written |-> TRUE, order |-> chunkSubtitleKeys]

\* The fallback path of the storeSubtitles handler (no transcriptUri in the
\* event).  languageJobs: the chunks of the completed jobs of the language, in
\* the order the table scan returns them; readable: the jobs whose caption
\* the handler can locate.
storeFallback(totalChunks, languageJobs, readable, io) ==
  LET validContents == SelectSeq(languageJobs, LAMBDA j : j \in readable) IN
  IF languageJobs = <<>> THEN [threw |-> TRUE, written |-> FALSE, order |-> <<>>]
  ELSE IF totalChunks > 1 /\ Len(languageJobs) > 1 /\ validContents # <<>>
         THEN IF io THEN [threw |-> FALSE, written |-> TRUE, order |-> validContents]
                    ELSE [threw |-> TRUE, written |-> FALSE, order |-> <<>>]
         ELSE [threw |-> FALSE, written |-> FALSE, order |-> <<>>]

ApplyMergeHandler ==
  /\ call = NoCall
  /\ \E totalChunks \in 0..MaxTracks, io \in BOOLEAN :
       \E present \in SUBSET (1..totalChunks) :
         call' = [op |-> "mergeHandler", totalChunks |-> totalChunks,
                  found |-> present, io |-> io,
                  result |-> mergeHandler(totalChunks, present, io)]
  /\ UNCHANGED workflowVars

ApplyStoreFallback ==
  /\ call = NoCall
  /\ \E totalChunks \in 0..MaxTracks, io \in BOOLEAN :
       \E completed \in SUBSET (1..totalChunks) :
         \E languageJobs \in Listings(completed), readable \in SUBSET completed :
           call' = [op |-> "storeFallback", totalChunks |-> totalChunks,
                    jobs |-> languageJobs, found |-> readable, io |-> io,
                    result |-> storeFallback(totalChunks, languageJobs, readable, io)]
  /\ UNCHANGED workflowVars

MergeNext ==
  \/ ApplyMergeSubtitles
  \/ ApplyConcatSubtitles
  \/ ApplyParseFormat
  \/ ApplyMergeHandler
  \/ ApplyStoreFallback

MergeSpec == PureInit /\ [][MergeNext]_vars

\* ------------------------------------------------------------------ claims
TopLevelEnglish == [chunk |-> 0, language |-> "english"]

\* Segment s is in its poll loop.
Polling(s) ==
  IF s = 0
    THEN Running /\ state \in {"MonitorTranscription", "CheckMonitoringResult",
                               "WaitBeforeRetry"}
    ELSE InMap /\ pc[s] \in {"MonitorChunkTranscription", "CheckChunkComplete",
                             "WaitChunk"}

\* C1: whenever the service reports FAILED for a job the workflow polls (direct
\* path or chunk branch), the execution eventually fails; it never succeeds,
\* does not poll forever, and no caption is written at the top-level key of a
\* split file.
C1_FailedJobFailsExecution ==
  /\ [](\A s \in Segments : transcribeJobs[s] = "FAILED" =>
          /\ execStatus # "SUCCEEDED"
          /\ state # "SuccessState"
          /\ sizeCheck = "split" => subtitles[TopLevelEnglish] = NoObject)
  /\ \A s \in Segments :
       [](Polling(s) /\ transcribeJobs[s] = "FAILED" => <>(execStatus = "FAILED"))

C1_Witness ==
  /\ execStatus = "FAILED"
  /\ \E b \in Chunks :
       /\ transcribeJobs[b] = "FAILED"
       /\ [step |-> "MonitorChunkTranscription", retries |-> 2, segment |-> b]
            \in taskFailures

\* C2: on the direct path, when the English job completed with its subtitle
\* output and nothing failed, the execution ends in Success with the caption
\* stored at the top-level key {baseName}/english.
C2_DirectPathSucceeds ==
  (/\ sizeCheck = "transcribe"
   /\ transcribeJobs[0] = "COMPLETED"
   /\ faults = 0
   /\ execStatus # "RUNNING")
  => /\ execStatus = "SUCCEEDED"
     /\ subtitles[TopLevelEnglish] = 0

\* Every chunk of the split file has its caption at its chunk key.
AllChunksRelocated ==
  \A b \in Chunks :
    b <= splitResult => subtitles[[chunk |-> b, language |-> "english"]] # NoObject

\* C3: a split file whose chunks were all relocated has a merged caption at
\* the top-level key {baseName}/english when the execution succeeds.
C3_MergedBeforeSuccess ==
  (/\ execStatus = "SUCCEEDED"
   /\ sizeCheck = "split"
   /\ splitResult >= 2
   /\ AllChunksRelocated)
  => subtitles[TopLevelEnglish] # NoObject

\* The canonical location of the caption of segment s.
CanonicalKey(s) == [chunk |-> s, language |-> "english"]

\* The segments an execution processes.
Processed ==
  IF sizeCheck = "split" THEN {b \in Chunks : b <= splitResult} ELSE {0}

\* C4: in Success a caption exists at the canonical location of every
\* processed segment: the top-level key for an unsplit file, the chunk key for
\* each chunk of a split file.
C4_SuccessHasCaptions ==
  execStatus = "SUCCEEDED" =>
    \A s \in Processed : subtitles[CanonicalKey(s)] # NoObject

\* Segment s is in its relocate step.
Relocating(s) ==
  IF s = 0
    THEN state = "StoreSubtitles"
    ELSE state = "ProcessChunks" /\ pc[s] \in {"StoreChunkSubtitles", "Done"}

\* C5: a poll answers allComplete = true only when the service has reported
\* the polled job COMPLETED, and the relocate step of a job is entered only
\* after such a poll.
C5_RelocateOnlyAfterCompleted ==
  \A s \in Segments :
    /\ monitorResult[s].allComplete =>
         /\ transcribeJobs[s] = "COMPLETED"
         /\ Len(monitorResult[s].completedJobs) = 1
         /\ monitorResult[s].completedJobs[1].jobId = s
    /\ Relocating(s) => monitorResult[s].allComplete

C5_Witness ==
  \E b \in Chunks :
    /\ pc[b] = "StoreChunkSubtitles"
    /\ monitorResult[b].allComplete
    /\ \E c \in Chunks : pc[c] = "WaitChunk" /\ transcribeJobs[c] = "IN_PROGRESS"

C7_FailedBranchFailsExecution ==
  /\ []((\E b \in Chunks : pc[b] = "Failed") =>
          /\ execStatus # "SUCCEEDED"
          /\ state \in {"ProcessChunks", "FailureState"})
  /\ []((\E b \in Chunks : pc[b] = "Failed") => <>(execStatus = "FAILED"))

C7_Witness ==
  /\ execStatus = "FAILED"
  /\ splitResult = 2
  /\ pc[1] = "Failed"
  /\ pc[2] = "Done"

\* C8: at most 3 chunk branches are in progress at any time, and a branch
\* starts only while fewer than 3 are in progress.
C8_BoundedConcurrency ==
  /\ [](Cardinality(RunningBranches) <= 3)
  /\ [][\A b \in Chunks :
          (pc[b] = "Queued" /\ pc'[b] # "Queued") => Cardinality(RunningBranches) < 3]_vars

C8_Witness ==
  /\ Cardinality(RunningBranches) = 3
  /\ pc[1] = "Done"
  /\ pc[4] \in InProgress

\* The retries the retry policy grants a task step: 2 for a poll, 3 otherwise.
ClaimedRetries(step) ==
  IF step \in {"MonitorTranscription", "MonitorChunkTranscription"} THEN 2 ELSE 3

\* C9: every task step is retried before its error is propagated: up to 3
\* times (2 for a poll), after waits of 2 s doubling each time.
C9_EveryTaskRetried ==
  \A f \in taskFailures :
    /\ f.retries = ClaimedRetries(f.step)
    /\ MaxAttempts(f.step) = ClaimedRetries(f.step)
    /\ \A k \in 1..f.retries : RetryDelay(k) = 2 * Pow(2, k - 1)

\* A failed branch of the fan-out or of the Parallel state is waiting for the
\* Catch of its parent.
CatchPending ==
  \/ state = "ProcessChunks" /\ \E b \in Chunks : pc[b] = "Failed"
  \/ state = "StoreSubtitles" /\ \E l \in Languages : parallel[l] = "Failed"

\* C10: when a task step has failed after its last retry the execution goes
\* to Fail with that error: it never succeeds, FailureState is entered with the
\* error of a failed task, and no task is retried beyond its policy.
C10_ExhaustedRetriesFail ==
  /\ taskFailures # {} =>
       /\ execStatus # "SUCCEEDED"
       /\ state # "SuccessState"
       /\ \/ state = "FailureState" /\ \E f \in taskFailures : error = f.step
          \/ CatchPending
          \/ execStatus = "FAILED"
  /\ state = "FailureState" => taskFailures # {}
  /\ \A f \in taskFailures : f.retries = MaxAttempts(f.step)
  /\ retries <= MaxAttempts(state)
  /\ \A b \in Chunks : branchRetries[b] <= MaxAttempts(pc[b])
  /\ parallelRetries["english"] <= MaxAttempts("StoreEnglishSubtitles")

C10_Witness ==
  /\ execStatus = "FAILED"
  /\ state = "FailureState"
  /\ error = "SplitVideo"
  /\ [step |-> "SplitVideo", retries |-> 3, segment |-> 0] \in taskFailures

\* C11: a validation-class error (the input names no bucket and key) fails
\* the execution at once: the step that raised it is never re-attempted, so no
\* retry is counted and the error is propagated after 0 retries.
C11_ValidationNotRetried ==
  ~validEvent =>
    /\ retries = 0
    /\ \A f \in taskFailures : f.retries = 0

\* C12: the size check answers split if and only if the measured size is
\* strictly greater than the threshold (a file of exactly the threshold size
\* takes the direct path), and the state machine enters SplitVideo exactly when
\* the answer was split and StartTranscribe otherwise.
C12_StrictThresholdRouting ==
  /\ [](sizeCheck # "none" =>
          (sizeCheck = "split" <=> contentLength > MAX_FILE_SIZE_MB * BytesPerMB))
  /\ [][/\ (state # "SplitVideo" /\ state' = "SplitVideo") => sizeCheck = "split"
        /\ (state # "StartTranscribe" /\ state' = "StartTranscribe") =>
             sizeCheck = "transcribe"
        /\ (state = "CheckSizeDecision" /\ state' # state) =>
             state' \in {"SplitVideo", "StartTranscribe"}]_vars

C12_Witness ==
  /\ contentLength = MAX_FILE_SIZE_MB * BytesPerMB
  /\ sizeCheck = "transcribe"
  /\ state = "StartTranscribe"

\* C13: when a poller (the workflow's poll or the scheduled scan) has read
\* status FAILED for a job and ends its update, the job's registry record has
\* status FAILED.
C13_FailedRecorded ==
  [][\A p \in Pollers, j \in Segments :
       (observed[p][j] = "FAILED" /\ observed'[p][j] = "NONE") =>
         jobsTable'[j].status = "FAILED"]_vars

Terminal == {"COMPLETED", "FAILED"}

\* C15: under every interleaving of the workflow's poller, the scheduled scan
\* and the submitter's PutItem, a record with a terminal status keeps that
\* status, a record becomes terminal only with the status and output location
\* the service reports, and every poller that read COMPLETED leaves the same
\* record behind.
C15_RegistryMonotone ==
  [][\A j \in Segments :
       /\ jobsTable[j].status \in Terminal => jobsTable'[j] = jobsTable[j]
       /\ (jobsTable'[j].status \in Terminal /\ jobsTable'[j] # jobsTable[j]) =>
            /\ jobsTable'[j].status = transcribeJobs[j]
            /\ jobsTable'[j].transcriptUri = TranscriptFileUri(j)
       /\ \A p \in Pollers :
            (observed[p][j] = "COMPLETED" /\ observed'[p][j] = "NONE") =>
              /\ jobsTable'[j].status = "COMPLETED"
              /\ jobsTable'[j].transcriptUri = TranscriptFileUri(j)]_vars

\* Both pollers race on job 1: the workflow's poll has completed the record
\* while the scan still holds the status it read.
C15_Witness ==
  /\ jobsTable[1].status = "COMPLETED"
  /\ monitorResult[1].allComplete
  /\ observed["scan"][1] = "COMPLETED"
  /\ 2 \in submitting

\* C14: when a poll has observed COMPLETED for a job, the job's registry
\* record has status COMPLETED with the output location the service reports,
\* and the poll result lists the job with its language, id and output location.
C14_CompletedRecorded ==
  \A s \in Segments :
    monitorResult[s].allComplete =>
      /\ jobsTable[s].status = "COMPLETED"
      /\ jobsTable[s].transcriptUri = TranscriptFileUri(s)
      /\ monitorResult[s].completedJobs =
           <<[language |-> "english", jobId |-> s,
              transcriptUri |-> TranscriptFileUri(s)]>>

C14_Witness ==
  \E b \in Chunks :
    /\ pc[b] = "CheckChunkComplete"
    /\ monitorResult[b].allComplete
    /\ jobsTable[b].status = "COMPLETED"
    /\ jobsTable[b].chunkIndex = b

\* C16: when the service rejects a submission, submit writes no registry
\* record and propagates the error: the registry is unchanged by the failed
\* submit, and no job the service did not accept has a record.
C16_RejectedSubmitWritesNothing ==
  /\ [](\A s \in Segments : transcribeJobs[s] = "NONE" => jobsTable[s] = NoRecord)
  /\ [][/\ (/\ state = "StartTranscribe"
            /\ retries' = retries + 1 \/ state' = "FailureState"
            /\ startedJobs' = startedJobs) =>
             /\ jobsTable' = jobsTable
             /\ transcribeJobs' = transcribeJobs
        /\ \A b \in Chunks :
             (/\ pc[b] = "StartChunkTranscribe" /\ pc'[b] = "Failed"
              /\ startedJobs' = startedJobs) =>
               /\ jobsTable' = jobsTable
               /\ [step |-> "StartChunkTranscribe", retries |-> 0, segment |-> b]
                    \in taskFailures']_vars

C16_Witness ==
  /\ state = "FailureState"
  /\ error = "StartTranscribe"
  /\ transcribeJobs[0] = "NONE"
  /\ jobsTable[0] = NoRecord

\* C17: whenever submit returns successfully for a job, the registry holds
\* the job's record with the submitted (non-terminal) status and the metadata
\* of the owning segment.
C17_SubmitPersistsRecord ==
  [][\A s \in Segments :
       (transcribeJobs[s] = "NONE" /\ transcribeJobs'[s] # "NONE") =>
         /\ jobsTable'[s].status = "IN_PROGRESS"
         /\ jobsTable'[s].chunkIndex = chunkIndexOf(s)
         /\ jobsTable'[s].totalChunks = totalChunksOf(s)]_vars

\* C18: two submissions that differ in segment key, in language or in
\* submission instant receive different job ids.
C18_DistinctJobIds ==
  (/\ call.op = "generateJobName"
   /\ \/ call.a.key # call.b.key
      \/ call.a.language # call.b.language
      \/ call.a.now # call.b.now)
  => call.ra # call.rb

\* C19: relocate writes the caption of a chunk job of a split file under the
\* chunk's own subdirectory, never at the top-level key, whatever the number of
\* chunks; the caption of an unsplit file goes to the top-level key, never
\* under a chunk subdirectory.
C19_CaptionKeyFollowsSplit ==
  /\ sizeCheck = "split" =>
       \A l \in Languages : subtitles[[chunk |-> 0, language |-> l]] = NoObject
  /\ sizeCheck # "split" =>
       \A k \in FinalKeys : k.chunk # 0 => subtitles[k] = NoObject
  /\ \A k \in FinalKeys : subtitles[k] # NoObject => subtitles[k] = k.chunk

\* C20: a failure of the cleanup during relocate never makes relocate return
\* an error: a relocate step that copied the caption to its canonical key ends
\* successfully, also when the job's files could not be cleaned up.
C20_CleanupNeverEscalates ==
  [][/\ \A b \in Chunks :
          (/\ pc[b] = "StoreChunkSubtitles"
           /\ \E k \in FinalKeys : subtitles'[k] # subtitles[k] /\ subtitles'[k] = b)
          => pc'[b] = "Done"
     /\ \A l \in Languages :
          (/\ parallel[l] = "Running"
           /\ \E k \in FinalKeys : /\ k.language = l
                                   /\ subtitles'[k] # subtitles[k]
                                   /\ subtitles'[k] = 0)
          => parallel'[l] = "Done"]_vars

\* A chunk's caption was copied, its branch ended successfully, and the
\* job's files are still in the bucket because the cleanup failed.
C20_Witness ==
  \E b \in Chunks :
    /\ pc[b] = "Done"
    /\ subtitles[[chunk |-> b, language |-> "english"]] = b
    /\ outputFiles[b] = {"json", "srt"}
    /\ faults = 1


\* C21: a successful split returns one reference per segment the tool
\* produced; the chunk indices are 1..N in order, the N-th reference holds the
\* N-th segment, every reference carries totalChunks = N and the same
\* originalKey, and is stored at chunks/{baseName}/chunk_{3-digit index}.mp4.
C21_SplitManifest ==
  call.op = "splitVideo" =>
    LET r == call.result
        N == Len(call.listing)
        base == stripMp4(r.originalKey)
    IN /\ Len(r.chunks) = N
       /\ r.totalChunks = N
       /\ r.originalKey = (IF call.originalKey = <<>> THEN call.key ELSE call.originalKey)
       /\ \A i \in 1..N :
            /\ r.chunks[i].chunkIndex = i
            /\ r.chunks[i].totalChunks = N
            /\ r.chunks[i].originalKey = r.originalKey
            /\ r.chunks[i].body = <<"chunk_", "0", "0", DigitChars[i], ".mp4">>
            /\ r.chunks[i].key =
                 <<"chunks/">> \o base \o <<"/chunk_", "0", "0", DigitChars[i + 1], ".mp4">>

C21_Witness ==
  /\ call.op = "splitVideo"
  /\ call.listing = <<2, 0, 1>>
  /\ call.originalKey = <<>>
  /\ call.key = <<"a", ".mp4">>
  /\ call.result.chunks[3].key = <<"chunks/", "a", "/chunk_", "0", "0", "3", ".mp4">>

\* C22: when the splitter tool produces zero segments the split fails and the
\* execution fails: the execution never enters the fan-out with an empty
\* segment list and never reports success.
C22_EmptySplitFails ==
  (sizeCheck = "split" /\ segmentCount = 0) =>
    /\ state \notin {"ProcessChunks", "SuccessState"}
    /\ execStatus # "SUCCEEDED"

\* C23: for every list of tracks, each sorted by start time with
\* non-overlapping cues and any number of cues, every adjacent pair of cues of
\* the merged track satisfies cue[i].end <= cue[i+1].start.
C23_MergedMonotone ==
  call.op = "mergeSubtitles" =>
    \A i \in 1..(Len(call.merged) - 1) :
      call.merged[i].endTime <= call.merged[i + 1].startTime

\* The cues of a list of tracks, in input order.
RECURSIVE Flatten(_)
Flatten(tracks) ==
  IF tracks = <<>> THEN <<>> ELSE Head(tracks) \o Flatten(Tail(tracks))

\* C24: the merged track holds exactly the cues of the input tracks in input
\* order, each with its text and its duration unchanged, and their indices
\* are 1..totalCues whatever the indices of the inputs were.
C24_MergePreservesCues ==
  call.op \in {"mergeSubtitles", "concatSubtitles"} =>
    LET cues == Flatten(call.tracks) IN
    /\ Len(call.merged) = Len(cues)
    /\ \A i \in 1..Len(call.merged) :
         /\ call.merged[i].text = cues[i].text
         /\ call.merged[i].endTime - call.merged[i].startTime
              = cues[i].endTime - cues[i].startTime
         /\ call.merged[i].index = i

\* C25: the merge of a list holding one track returns that track, every cue
\* with its start time, end time and text, with the indices renumbered to
\* 1..len(track).
C25_MergeSingleTrack ==
  (call.op = "mergeSubtitles" /\ Len(call.tracks) = 1) =>
    call.merged = [i \in 1..Len(call.tracks[1]) |->
                     [call.tracks[1][i] EXCEPT !.index = i]]

C25_Witness ==
  /\ call.op = "mergeSubtitles"
  /\ Len(call.tracks) = 1
  /\ Len(call.tracks[1]) = 2
  /\ call.tracks[1][1].index = 5
  /\ call.merged[2].index = 2
  /\ call.merged[2].startTime = call.tracks[1][2].startTime

\* C26: parse(format(t)) = t for every track t with indices 1..N and
\* non-negative integer-millisecond timestamps of any magnitude.
C26_ParseFormatRoundTrip ==
  call.op = "parseFormat" => call.parsed = call.track

\* The number of cues of the tracks before track k.
RECURSIVE CuesBefore(_, _)
CuesBefore(tracks, k) ==
  IF k = 1 THEN 0 ELSE CuesBefore(tracks, k - 1) + Len(tracks[k - 1])

\* The cues the merge emitted for input track k.
Emitted(k) ==
  SubSeq(call.merged, CuesBefore(call.tracks, k) + 1,
         CuesBefore(call.tracks, k) + Len(call.tracks[k]))

\* C28: the offset applied to track k+1 is the largest shifted end time
\* emitted for track k plus 100 ms, every cue of track k+1 starts at or after
\* the latest end of track k plus the gap, and the offset never decreases from
\* one track to the next.
C28_OffsetAfterTrack ==
  call.op = "mergeSubtitles" =>
    \A k \in 1..(Len(call.tracks) - 1) :
      /\ call.offsets[k + 1] >= call.offsets[k]
      /\ \A i \in 1..Len(Emitted(k)) :
           /\ call.offsets[k + 1] >= Emitted(k)[i].endTime + 100
           /\ \A j \in 1..Len(Emitted(k + 1)) :
                Emitted(k + 1)[j].startTime >= Emitted(k)[i].endTime + 100
      /\ Emitted(k) # <<>> =>
           \E i \in 1..Len(Emitted(k)) :
             call.offsets[k + 1] = Emitted(k)[i].endTime + 100

\* C27: a merge that expects N chunk captions and finds fewer than N but at
\* least one proceeds with the captions found and succeeds, writing the merged
\* caption; it fails only when it finds none.
C27_PartialMergeProceeds ==
  (/\ call.op \in {"mergeHandler", "storeFallback"}
   /\ call.totalChunks > 1
   /\ call.io)
  => /\ call.found # {} =>
          /\ ~call.result.threw
          /\ call.result.written
          /\ {call.result.order[i] : i \in 1..Len(call.result.order)} = call.found
     /\ call.found = {} => call.result.threw

\* C29: every merge of the chunk captions of a split file combines them in
\* ascending chunk-index order, whatever the order in which the registry or
\* the object store returns them.
C29_MergeInChunkOrder ==
  (call.op \in {"mergeHandler", "storeFallback"} /\ call.result.written) =>
    \A i \in 1..(Len(call.result.order) - 1) :
      call.result.order[i] < call.result.order[i + 1]

\* C30: the files of a job in the transcription output are deleted only by a
\* relocate step that has written the job's caption to its canonical key; a
\* relocate step that fails (its download or its upload raised) deletes no
\* file of a job.
C30_CleanupAfterCopy ==
  [][/\ \A s \in Segments :
          (outputFiles'[s] # outputFiles[s] /\ outputFiles'[s] \subseteq outputFiles[s])
          => \E k \in FinalKeys : subtitles'[k] = s
     /\ (\/ taskFailures' # taskFailures
         \/ \E b \in Chunks : branchRetries'[b] > branchRetries[b]
         \/ \E l \in Languages : parallelRetries'[l] > parallelRetries[l])
        => outputFiles' = outputFiles]_vars

\* The relocate step of one chunk failed for good with the job's files still
\* in place and no caption written, and another chunk's files were deleted
\* after its caption was written.
C30_Witness ==
  \E b \in Chunks, c \in Chunks :
    /\ pc[b] = "Failed"
    /\ \E f \in taskFailures : f.step = "StoreChunkSubtitles" /\ f.segment = b
    /\ outputFiles[b] = {"json", "srt"}
    /\ subtitles[[chunk |-> b, language |-> "english"]] = NoObject
    /\ pc[c] = "Done"
    /\ outputFiles[c] = {}
    /\ subtitles[[chunk |-> c, language |-> "english"]] = c

\* C31: a poll of a job whose registry record is already COMPLETED returns
\* allComplete with the job's completedJobs entry and the recorded output
\* location, and leaves the record's status and output location unchanged.
C31_RepollCompletedIsNoOp ==
  [][\A j \in RegistryJobs :
       (/\ observed["workflow"][j] = "COMPLETED"
        /\ observed'["workflow"][j] = "NONE"
        /\ jobsTable[j].status = "COMPLETED")
       => /\ jobsTable' = jobsTable
          /\ monitorResult'[j] =
               [allComplete |-> TRUE,
                completedJobs |-> <<[language |-> "english", jobId |-> j,
                                     transcriptUri |-> jobsTable[j].transcriptUri]>>]]_vars

\* The scheduled scan has recorded the job as COMPLETED and the workflow's
\* poll of the same job is under way.
C31_Witness ==
  \E j \in RegistryJobs :
    /\ jobsTable[j].status = "COMPLETED"
    /\ jobsTable[j].transcriptUri = j
    /\ observed["workflow"][j] = "COMPLETED"
    /\ pc[j] = "MonitorChunkTranscription"

\* The states of the poll loop of the execution and of a chunk iteration.
PollLoop == {"MonitorTranscription", "CheckMonitoringResult", "WaitBeforeRetry"}
ChunkPollLoop == {"MonitorChunkTranscription", "CheckChunkComplete", "WaitChunk"}

\* C32: once an execution or a chunk iteration is in its poll loop, a wait
\* step resumes at the poll step only, the size check, the split and the
\* submit step are not entered again, and no step of the loop starts a job.
C32_WaitResumesAtPoll ==
  [][/\ state \in PollLoop =>
          /\ state' \notin {"CheckFileSize", "CheckSizeDecision", "SplitVideo",
                            "StartTranscribe"}
          /\ (state = "WaitBeforeRetry" /\ state' # state)
               => state' = "MonitorTranscription"
          /\ transcribeJobs'[0] # transcribeJobs[0] => transcribeJobs[0] = "IN_PROGRESS"
     /\ \A b \in Chunks :
          pc[b] \in ChunkPollLoop =>
            /\ state' \notin {"CheckFileSize", "CheckSizeDecision", "SplitVideo"}
            /\ pc'[b] \notin {"Queued", "StartChunkTranscribe"}
            /\ (pc[b] = "WaitChunk" /\ pc'[b] # pc[b])
                 => pc'[b] = "MonitorChunkTranscription"
            /\ transcribeJobs'[b] # transcribeJobs[b] => transcribeJobs[b] = "IN_PROGRESS"]_vars

\* A chunk iteration waits between two polls of its job, which is still in
\* progress, while another iteration has left its loop.
C32_Witness ==
  \E b \in Chunks, c \in Chunks :
    /\ pc[b] = "WaitChunk"
    /\ transcribeJobs[b] = "IN_PROGRESS"
    /\ pc[c] = "StoreChunkSubtitles"

\* C33: when the split fails after it uploaded some chunk objects, those
\* objects are removed before the error is propagated: after a split that
\* failed for good no chunk object of the file is left in the object store.
C33_PartialUploadsRemoved ==
  (\E f \in taskFailures : f.step = "SplitVideo") => chunkObjects = {}

\* C34: when every submitted job eventually reaches COMPLETED or FAILED at
\* the service and every enabled step of the workflow is eventually taken,
\* every execution eventually ends in Success or in Fail.
C34_ExecutionTerminates == <>(execStatus \in {"SUCCEEDED", "FAILED"})

\* An execution that went through the poll loops of two chunks has ended.
C34_Witness ==
  /\ execStatus = "SUCCEEDED"
  /\ splitResult = 2
  /\ \A b \in 1..2 : transcribeJobs[b] = "COMPLETED" /\ pc[b] = "Done"

\* C35: within one execution the service starts at most one transcription job
\* for each segment and language, also when the retry policy re-attempts a
\* submit step whose earlier invocation had already started a job.
C35_AtMostOneJobPerSegment ==
  \A s \in Segments : startedJobs[s] <= 1

\* C36: in the fan-out the caption stored at {baseName}/chunk_i/{language} is
\* the output of the job submitted for chunk i: under every interleaving of the
\* iterations, an iteration's poll reports and records only its own job and
\* its relocate stores only that job's caption and deletes only that job's
\* files.
C36_BranchOwnsItsJob ==
  /\ [](\A k \in FinalKeys :
          (k.chunk # 0 /\ subtitles[k] # NoObject) => subtitles[k] = k.chunk)
  /\ [](\A b \in Chunks : \A i \in 1..Len(monitorResult[b].completedJobs) :
          /\ monitorResult[b].completedJobs[i].jobId = b
          /\ monitorResult[b].completedJobs[i].transcriptUri = b)
  /\ [][\A b \in Chunks :
          (pc[b] \in {"MonitorChunkTranscription", "StoreChunkSubtitles"}
           /\ pc'[b] # pc[b])
          => \A c \in Segments \ {b} :
               /\ jobsTable'[c] = jobsTable[c]
               /\ outputFiles'[c] = outputFiles[c]
               /\ monitorResult'[c] = monitorResult[c]]_vars

\* Two iterations relocated their captions, the second chunk first, while a
\* third one is still polling.
C36_Witness ==
  /\ splitResult >= 3
  /\ subtitles[[chunk |-> 2, language |-> "english"]] = 2
  /\ pc[2] = "Done"
  /\ pc[1] = "StoreChunkSubtitles"
  /\ monitorResult[1].completedJobs[1].jobId = 1
  /\ pc[3] = "WaitChunk"

\* C37: a relocate invoked again for a job whose caption is already stored
\* and whose files are already deleted raises no error (the step completes
\* unless an external failure is injected) and leaves the stored caption
\* objects unchanged.
C37_ReplayedRelocateIsNoOp ==
  [][\A b \in Chunks :
       (/\ pc[b] = "StoreChunkSubtitles"
        /\ subtitles[[chunk |-> b, language |-> "english"]] = b
        /\ outputFiles[b] = {}
        /\ pc'[b] # pc[b] \/ branchRetries'[b] # branchRetries[b])
       => /\ subtitles' = subtitles
          /\ outputFiles' = outputFiles
          /\ (faults' = faults /\ branchRetries[b] = 0) => pc'[b] = "Done"]_vars

\* The replayed relocate of a chunk whose files were gone has completed and
\* its caption is still the job's.
C37_Witness ==
  \E b \in Chunks :
    /\ pc[b] = "Done"
    /\ outputFiles[b] = {}
    /\ subtitles[[chunk |-> b, language |-> "english"]] = b
    /\ faults = 0
    /\ \E c \in Chunks : pc[c] = "StoreChunkSubtitles" /\ outputFiles[c] = {}
                         /\ subtitles[[chunk |-> c, language |-> "english"]] = c

\* C38: in scan mode, when the check of a scanned job that the service
\* reported COMPLETED or FAILED ends, the job's registry record is no longer
\* IN_PROGRESS (so that a later scan does not pick it up again), and the
\* check of one job, failed or not, leaves the other scanned jobs to be
\* checked.
C38_ScanRetiresTerminalJobs ==
  [][\A j \in Segments :
       (j \in scanJobs /\ j \notin scanJobs' /\ observed["scan"][j] \in Terminal)
       => /\ jobsTable'[j].status # "IN_PROGRESS"
          /\ scanJobs' = scanJobs \ {j}]_vars

\* C39: in the Lambda-chaining monitor every job whose record became
\* COMPLETED eventually has storeSubtitles invoked with its own language, job
\* id and output location, so that both captions of an unsplit file are
\* stored also when its two jobs complete in different scans.
C39_CompletedJobsRelocated ==
  \A j \in ChainJobs :
    (jobsTable[j].status = "COMPLETED")
      ~> (/\ monitorResult[j].allComplete
          /\ monitorResult[j].completedJobs =
               <<[language |-> ChainLanguage(j), jobId |-> j,
                  transcriptUri |-> TranscriptFileUri(j)]>>)
====
